---- MODULE Spec2Model ----
(***************************************************************************)
(* Zephyr MCP server: the plugin manager (pkg/plugin), the tool registry   *)
(* (internal/registry), the transport adapters (pkg/mcp/transport) and     *)
(* their callers.                                                          *)
(*                                                                         *)
(* Spec     : the manager and the registry driven by one caller at a time; *)
(*            every action is one whole public operation.                  *)
(* SpecAll  : the manager with LoadAllPlugins.                             *)
(* SpecReg  : the registry driven by concurrent callers; every action is   *)
(*            one step of RegisterTool / UnregisterTool under toolsLock.   *)
(* SpecRW   : SpecReg with GetTool / ListTools readers and with            *)
(*            registrations of a nil tool and of an empty name.            *)
(* SpecCat  : the registry called directly, one whole call per action.     *)
(* SpecDisc : SpecCat with periodic discovery and its loop goroutines.     *)
(* SpecT    : one transport adapter, its callers and serving goroutines;   *)
(*            SpecTFair adds the scheduling of exit handlers and timers.   *)
(* SpecFac  : the transport factory. SpecSrv, SpecBridge, SpecMetrics: the *)
(*            server, its tool bridge and its metrics collector.           *)
(* SpecScan : DiscoverPlugins on a base directory in full.                 *)
(* SpecApp  : the application's Run and Shutdown.                          *)
(* SpecMu   : the manager driven by concurrent goroutines; every action is *)
(*            one lock operation or one body made under pm.mu.             *)
(*                                                                         *)
(* Names are small positive integers standing for distinct non-empty       *)
(* strings; 0 stands for the empty string / nil.                           *)
(***************************************************************************)
EXTENDS Integers, Sequences, FiniteSets, TLC

\* ---------------------------------------------------------------- bounds
MaxPlugins == 2
MaxDirs == 3
MaxShutdowns == 2
NumCallers == 3
MaxContended == 1
MaxLoops == 2
MaxStarts == 3
MaxInvocations == 2
MaxScanDirs == 2
\* capacity of the response-time window (1000 in the code)
MaxWindow == 2
\* RecordRequest calls made directly on a collector
MaxRequests == 4

\* ------------------------------------------------------------- constants
EmptyName == 0
NoTool == 0
NoDir == 0
NoManifest == 0
BadManifest == -1
NoOwner == 0
NoChan == 0
FirstChan == 1
NoCycle == 0

Names == 1..MaxPlugins
ToolNames == Names \cup {EmptyName}
Dirs == 1..MaxDirs
Callers == 1..NumCallers
\* the goroutines that call the plugin manager concurrently
ManagerCallers == {1, 2, 3}

\* How far a loadable unit lets LoadPlugin get: "open" is a failure of plugin.Open,
\* of Lookup("Plugin") or of the type assertion (each returns before any hook);
\* "init" a failing Initialize(); "ok" a unit that opens and initializes.
LoadOutcomes == {"open", "init", "ok"}

VARIABLES
    disk,         \* base directory: plugin directory -> content of its plugin.json
    pluginName,   \* loadable unit of manifest name n -> what its Name() returns
    discovered,   \* pm.discovered (the manifest names recorded)
    pluginPaths,  \* pm.pluginPaths
    plugins,      \* pm.plugins
    loaded,       \* pm.loaded
    tools,        \* Registry.tools: tool name -> registered tool (NoTool = absent)
    shutCount,    \* Shutdown() invocations on plugin n since its last successful Initialize()
    instLoaded,   \* the instance initialized last was recorded in pm.loaded
    last,         \* the operation performed last, its result and the calls it made
    toolsLock,    \* Registry.toolsLock: the caller holding it exclusively
    pc,           \* SpecReg: position of each caller
    call,         \* SpecReg: the call each caller makes
    result,       \* SpecReg: what each caller's call returned
    readers,      \* Registry.toolsLock: the callers holding it for reading
    initCalled,   \* the tools whose Initialize() the registry has invoked
    initialized,  \* the tools whose Initialize() has returned success
    returned,     \* the tools each caller's GetTool / ListTools call returned
    discoveryEnabled,  \* Registry.discoveryEnabled
    discoveryRunning,  \* Registry.discoveryRunning
    stopDiscovery,     \* Registry.stopDiscovery: the channel the field holds
    closedChans,       \* the channels that have been closed
    loops,        \* the periodicDiscoveryLoop goroutines launched so far
    kind,         \* transport adapter: "stdio", "sse" or "http"
    running,      \* adapter.running
    cycle,        \* which successful Start made the adapter's ctx / httpServer (NoCycle: nil)
    stoppedCycles,  \* the cycles whose ctx Stop cancelled / whose httpServer Stop shut down
    ctxCancelled, \* the context handed to Start(ctx) has been cancelled
    srv,          \* the serving goroutine each successful Start launched
    mu,           \* adapter.mu: "free", or "draining" while Stop waits in Shutdown
    lastCall,     \* the Start / Stop call that returned last
    facReq,       \* transport factory: the construction request
    facOut,       \* transport factory: what the construction returned
    engine,       \* Server.mcpServer: started, and the handler AddTool put under each name
    hasMetrics,   \* Server.metrics != nil
    metrics,      \* MetricsCollector: requestCount, errorCount, toolCallCount
    metricsMu,    \* MetricsCollector.mu: the invocation holding it
    inv,          \* the tool calls the protocol engine dispatches
    fs,           \* base directory, in full: entry -> what it is and what its plugin.json holds
    metadata,     \* pm.discovered: manifest name -> the PluginMetadata recorded
    app,          \* App: its phase, the component calls its Shutdown made, in order, and
                  \* the plugins that were loaded when Shutdown was called
    pmMu,         \* PluginManager.mu: the goroutine holding it exclusively, those reading
    mcall,        \* the manager call each goroutine makes, and its position in it
    inst,         \* per plugin: the adapters registered so far, and the one registered now
    fatal         \* the Go runtime has thrown (a fatal error ends the process)

discVars == <<discoveryEnabled, discoveryRunning, stopDiscovery, closedChans, loops>>
tVars == <<kind, running, cycle, stoppedCycles, ctxCancelled, srv, mu, lastCall>>
facVars == <<facReq, facOut>>
srvVars == <<engine, hasMetrics, metrics, metricsMu, inv>>
scanVars == <<fs, metadata>>
appVars == <<app>>
muVars == <<pmMu, mcall, inst, fatal>>
extVars == <<facVars, srvVars, scanVars, appVars, muVars>>
mgrVars == <<disk, pluginName, discovered, pluginPaths, plugins, loaded, shutCount, instLoaded, last,
             discVars, tVars, extVars>>
regVars == <<toolsLock, pc, call, result, readers, initCalled, initialized, returned, tVars,
             extVars>>
vars == <<disk, pluginName, discovered, pluginPaths, plugins, loaded, tools, shutCount,
          instLoaded, last, toolsLock, pc, call, result, readers, initCalled, initialized,
          returned, discVars, tVars, extVars>>

Ev(e, p, r) == [ev |-> e, p |-> p, res |-> r]

RECURSIVE CountEv(_, _, _)
CountEv(s, e, p) ==
    IF s = <<>> THEN 0
    ELSE (IF s[1].ev = e /\ s[1].p = p THEN 1 ELSE 0) + CountEv(Tail(s), e, p)

HasEv(s, e, p) == \E i \in 1..Len(s) : s[i].ev = e /\ s[i].p = p

\* ------------------------------------------------------------- registry
\* Registry.RegisterTool, as one call: tool is the object, name its Name(),
\* initOk the outcome its Initialize() would have.
RegisterTool(r, tool, name, initOk) ==
    IF tool = NoTool THEN [tools |-> r, err |-> "nil_tool", init |-> FALSE]
    ELSE IF name = EmptyName THEN [tools |-> r, err |-> "empty_name", init |-> FALSE]
    ELSE IF r[name] # NoTool THEN [tools |-> r, err |-> "duplicate", init |-> FALSE]
    ELSE IF ~initOk THEN [tools |-> r, err |-> "init", init |-> TRUE]
    ELSE [tools |-> [r EXCEPT ![name] = tool], err |-> "ok", init |-> TRUE]

\* Registry.UnregisterTool, as one call: cleaned is the tool whose Cleanup()
\* ran (NoTool when none did).
UnregisterTool(r, name) ==
    IF r[name] = NoTool THEN [tools |-> r, err |-> "not_found", cleaned |-> NoTool]
    ELSE [tools |-> [r EXCEPT ![name] = NoTool], err |-> "ok", cleaned |-> r[name]]

\* Registry.GetTool
GetTool(r, name) ==
    IF r[name] = NoTool THEN [tool |-> NoTool, err |-> "not_found"]
    ELSE [tool |-> r[name], err |-> "ok"]

\* -------------------------------------------------------- plugin manager
\* The part of the state the manager's operations change, with the calls made
\* (events) and the error returned (err, "ok" for nil) by the operation so far.
Cur == [loaded |-> loaded, tools |-> tools, shutCount |-> shutCount,
        instLoaded |-> instLoaded, events |-> <<>>, err |-> "ok",
        attempted |-> {}, errors |-> {}]

Ret(s, op, n, e) == [s EXCEPT !.err = e, !.events = Append(@, Ev(op, n, e))]

\* dynamicPlugin.Shutdown(), called by the manager itself
CallShutdown(s, n, ok) ==
    [s EXCEPT !.shutCount[n] = @ + 1,
              !.events = Append(@, Ev("Shutdown", n, IF ok THEN "ok" ELSE "fail"))]

\* DynamicPluginAdapter.Cleanup(), called by the registry: plugin.Shutdown()
CallCleanup(s, n, ok) ==
    [s EXCEPT !.shutCount[n] = @ + 1,
              !.events = Append(@, Ev("Cleanup", n, IF ok THEN "ok" ELSE "fail"))]

\* Variant of LoadRefused without the already-loaded check
LoadRefusedMut(ld, n) == IF n \notin discovered THEN "not_found" ELSE "ok"

\* LoadPlugin: the two checks made before anything is opened
LoadRefused(ld, n) ==
    IF n \notin discovered THEN "not_found"
    ELSE IF n \in ld THEN "already_loaded"
    ELSE "ok"

\* Variant of InitFailed that shuts the plugin down although it never initialized
InitFailedMut(s, n) ==
    Ret(CallShutdown([s EXCEPT !.events = Append(@, Ev("Initialize", n, "fail"))], n, TRUE),
        "LoadPlugin", n, "init")

\* LoadPlugin: Initialize() failed
InitFailed(s, n) ==
    Ret([s EXCEPT !.events = Append(@, Ev("Initialize", n, "fail"))], "LoadPlugin", n, "init")

\* Variant of RegisterFailed that returns the error without the Shutdown() call
RegisterFailedMut(s, n) == Ret(s, "LoadPlugin", n, "register")

\* LoadPlugin: RegisterTool failed
RegisterFailed(s, n) ==
    Ret(CallShutdown(s, n, TRUE), "LoadPlugin", n, "register")

\* PluginManager.LoadPlugin(n); oc is how far the loadable unit lets it get
LoadPluginOp(st, n, oc) ==
    IF LoadRefused(st.loaded, n) # "ok" THEN Ret(st, "LoadPlugin", n, LoadRefused(st.loaded, n))
    ELSE IF pluginPaths[n] = NoDir THEN Ret(st, "LoadPlugin", n, "no_dir")
    ELSE IF oc = "open" THEN Ret(st, "LoadPlugin", n, "open")
    ELSE IF oc = "init" THEN InitFailed(st, n)
    ELSE LET s1 == [st EXCEPT !.events = Append(@, Ev("Initialize", n, "ok")),
                              !.shutCount[n] = 0, !.instLoaded[n] = FALSE]
             reg == RegisterTool(s1.tools, n, pluginName[n], TRUE)
             s2 == [s1 EXCEPT !.tools = reg.tools,
                              !.events = Append(@, Ev("RegisterTool", n, reg.err))]
         IN  IF reg.err # "ok" THEN RegisterFailed(s2, n)
             ELSE Ret([s2 EXCEPT !.loaded = @ \cup {n}, !.instLoaded[n] = TRUE],
                      "LoadPlugin", n, "ok")

\* UnloadPlugin: pm.registry.UnregisterTool(name), its error only logged
UnloadUnregister(s, n, cleanupOk) ==
    LET u == UnregisterTool(s.tools, n) IN
    IF u.err = "ok"
    THEN [CallCleanup(s, u.cleaned, cleanupOk) EXCEPT
              !.tools = u.tools, !.events = Append(@, Ev("UnregisterTool", n, "ok"))]
    ELSE [s EXCEPT !.events = Append(@, Ev("UnregisterTool", n, u.err))]

\* Variant of UnloadShutdown that deletes the bookkeeping entry before it
\* looks at the result of Shutdown()
UnloadShutdownMut(s, n, shutOk) ==
    Ret([CallShutdown(s, n, shutOk) EXCEPT !.loaded = @ \ {n}], "UnloadPlugin", n,
        IF shutOk THEN "ok" ELSE "shutdown")

\* UnloadPlugin: loadedPlugin.plugin.Shutdown() and the bookkeeping after it
UnloadShutdown(s, n, shutOk) ==
    IF ~shutOk THEN Ret(CallShutdown(s, n, FALSE), "UnloadPlugin", n, "shutdown")
    ELSE Ret([CallShutdown(s, n, TRUE) EXCEPT !.loaded = @ \ {n}], "UnloadPlugin", n, "ok")

\* Variant of NotLoaded that lets every name through
NotLoadedMut(ld, n) == FALSE

\* UnloadPlugin: "loadedPlugin, exists := pm.loaded[name]; if !exists"
NotLoaded(ld, n) == n \notin ld

\* Variant of UnloadPluginOp that shuts the plugin down and returns without
\* unregistering when Shutdown() succeeded
UnloadPluginOpMut(st, n, cleanupOk, shutOk) ==
    IF NotLoaded(st.loaded, n) THEN Ret(st, "UnloadPlugin", n, "not_loaded")
    ELSE IF shutOk THEN UnloadShutdown(st, n, shutOk)
    ELSE UnloadShutdown(UnloadUnregister(st, n, cleanupOk), n, shutOk)

\* PluginManager.UnloadPlugin(n)
UnloadPluginOp(st, n, cleanupOk, shutOk) ==
    IF NotLoaded(st.loaded, n) THEN Ret(st, "UnloadPlugin", n, "not_loaded")
    ELSE UnloadShutdown(UnloadUnregister(st, n, cleanupOk), n, shutOk)

\* ReloadPlugin: "_, isLoaded := pm.plugins[name]"
ReloadIsLoaded(st, n) == n \in plugins

\* PluginManager.ReloadPlugin(n)
ReloadPluginOp(st, n, cleanupOk, shutOk, oc) ==
    IF ReloadIsLoaded(st, n)
    THEN LET u == UnloadPluginOp(st, n, cleanupOk, shutOk) IN
         IF u.err # "ok" THEN Ret(u, "ReloadPlugin", n, "unload")
         ELSE LET l == LoadPluginOp(u, n, oc) IN Ret(l, "ReloadPlugin", n, l.err)
    ELSE LET l == LoadPluginOp(st, n, oc) IN Ret(l, "ReloadPlugin", n, l.err)

\* The orders in which a Go map with key set S may be ranged over
Orders(S) == {q \in [1..Cardinality(S) -> S] : \A i, j \in 1..Cardinality(S) : i # j => q[i] # q[j]}

\* LoadAllPlugins: one iteration of "for name := range pm.discovered"; errors
\* collects the names the combined error message lists
LoadAllStep(st, n, oc) ==
    LET l == LoadPluginOp(st, n, oc) IN
    [l EXCEPT !.attempted = @ \cup {n},
              !.errors = IF l.err # "ok" THEN @ \cup {n} ELSE @]

RECURSIVE LoadAllLoop(_, _, _)
\* Variant of LoadAllLoop that stops at the first failed load
LoadAllLoopMut(st, order, ocs) ==
    IF order = <<>> THEN st
    ELSE LET x == LoadAllStep(st, Head(order), ocs[Head(order)]) IN
         IF x.errors # {} THEN x ELSE LoadAllLoop(x, Tail(order), ocs)

LoadAllLoop(st, order, ocs) ==
    IF order = <<>> THEN st
    ELSE LoadAllLoop(LoadAllStep(st, Head(order), ocs[Head(order)]), Tail(order), ocs)

\* PluginManager.LoadAllPlugins(); order is the map iteration order. Of the calls
\* made only the attempted names and the failed names are kept.
LoadAllPluginsOp(st, order, ocs) ==
    LET l == LoadAllLoop(st, order, ocs) IN
    [l EXCEPT !.events = <<>>, !.err = IF l.errors # {} THEN "some_failed" ELSE "ok"]

RECURSIVE CleanupAll(_, _, _)
\* Registry.Shutdown: "for name, tool := range r.tools", order being the
\* iteration order and oks[name] whether the Cleanup() of that entry succeeds
CleanupAll(st, order, oks) ==
    IF order = <<>> THEN st
    ELSE CleanupAll(CallCleanup(st, st.tools[Head(order)], oks[Head(order)]), Tail(order), oks)

\* Registry.Shutdown(): Cleanup() of every entry, then an empty map; attempted
\* keeps the tools that were entries when it was called
RegistryShutdownOp(st, order, oks) ==
    Ret([CleanupAll(st, order, oks) EXCEPT
             !.tools = [k \in ToolNames |-> NoTool],
             !.attempted = {st.tools[k] : k \in {j \in ToolNames : st.tools[j] # NoTool}}],
        "Shutdown", EmptyName, "ok")

\* Registry.RegisterTool(t) with its Initialize() hook, t a tool object
RegisterToolCall(st, t, initOk) ==
    LET reg == RegisterTool(st.tools, t, pluginName[t], initOk)
        s1 == IF reg.init
              THEN [st EXCEPT !.events = Append(@, Ev("Initialize", t, IF initOk THEN "ok" ELSE "fail")),
                              !.shutCount[t] = IF initOk THEN 0 ELSE @]
              ELSE st
    IN  Ret([s1 EXCEPT !.tools = reg.tools], "RegisterTool", t, reg.err)

\* Variant of UnregisterToolCall that keeps the entry and returns the error
\* when Cleanup() fails
UnregisterToolCallMut(st, name, cleanupOk) ==
    LET u == UnregisterTool(st.tools, name) IN
    IF u.err = "ok" /\ ~cleanupOk
    THEN Ret(CallCleanup(st, u.cleaned, FALSE), "UnregisterTool", name, "cleanup")
    ELSE LET v == UnloadUnregister(st, name, cleanupOk) IN
         [v EXCEPT !.err = v.events[Len(v.events)].res]

\* Registry.UnregisterTool(name) with the Cleanup() hook, called directly
UnregisterToolCall(st, name, cleanupOk) ==
    LET u == UnloadUnregister(st, name, cleanupOk) IN
    [u EXCEPT !.err = u.events[Len(u.events)].res]

\* StopPeriodicDiscovery on d = the running flag, the channel field and the
\* closed channels
StopPeriodicDiscoveryOp(d) ==
    IF ~d.running THEN d
    ELSE [running |-> FALSE, stop |-> d.stop + 1, closed |-> d.closed \cup {d.stop}]

CurDiscovery == [running |-> discoveryRunning, stop |-> stopDiscovery, closed |-> closedChans]

\* DiscoverPlugins: one directory entry of the scan
ScanDir(dp, d) ==
    IF disk[d] \in {NoManifest, BadManifest} THEN dp
    ELSE [paths |-> [dp.paths EXCEPT ![disk[d]] = d], disc |-> dp.disc \cup {disk[d]}]

RECURSIVE ScanFrom(_, _)
ScanFrom(dp, d) == IF d > MaxDirs THEN dp ELSE ScanFrom(ScanDir(dp, d), d + 1)

\* ---------------------------------------------------------------- actions
CommitCore(s, op, n) ==
    /\ \A m \in Names : s.shutCount[m] <= MaxShutdowns
    /\ loaded' = s.loaded
    /\ tools' = s.tools
    /\ shutCount' = s.shutCount
    /\ instLoaded' = s.instLoaded
    /\ last' = [op |-> op, name |-> n, wasLoaded |-> n \in loaded, err |-> s.err,
                events |-> s.events, attempted |-> s.attempted, errors |-> s.errors]
    /\ UNCHANGED <<disk, pluginName, discovered, pluginPaths, plugins>>
    /\ UNCHANGED regVars

Commit(s, op, n) == CommitCore(s, op, n) /\ UNCHANGED discVars

DiscoverPlugins ==
    \E fsOk \in BOOLEAN :
        LET dp == IF fsOk THEN ScanFrom([paths |-> pluginPaths, disc |-> discovered], 1)
                  ELSE [paths |-> pluginPaths, disc |-> discovered]
        IN  /\ pluginPaths' = dp.paths
            /\ discovered' = dp.disc
            /\ last' = [op |-> "DiscoverPlugins", name |-> EmptyName, wasLoaded |-> FALSE,
                        err |-> IF fsOk THEN "ok" ELSE "readdir",
                        events |-> <<>>, attempted |-> {}, errors |-> {}]
            /\ UNCHANGED <<disk, pluginName, plugins, loaded, tools, shutCount, instLoaded>>
            /\ UNCHANGED regVars
            /\ UNCHANGED discVars

\* The outcomes worth telling apart for a load of n: a refused load opens nothing
OutcomesFor(ld, n) == IF LoadRefused(ld, n) = "ok" THEN LoadOutcomes ELSE {"ok"}

LoadPlugin(n) ==
    \E oc \in OutcomesFor(loaded, n) :
        \E s \in {LoadPluginOp(Cur, n, oc)} : Commit(s, "LoadPlugin", n)

UnloadPlugin(n) ==
    \E cleanupOk, shutOk \in (IF n \in loaded THEN BOOLEAN ELSE {TRUE}) :
        \E s \in {UnloadPluginOp(Cur, n, cleanupOk, shutOk)} : Commit(s, "UnloadPlugin", n)

ReloadPlugin(n) ==
    \E cleanupOk, shutOk \in (IF ReloadIsLoaded(Cur, n) THEN BOOLEAN ELSE {TRUE}) :
        \E oc \in LoadOutcomes :
            \E s \in {ReloadPluginOp(Cur, n, cleanupOk, shutOk, oc)} : Commit(s, "ReloadPlugin", n)

LoadAllPlugins ==
    \E order \in Orders(discovered) :
        \E ocs \in {f \in [Names -> LoadOutcomes] : \A n \in Names : f[n] \in OutcomesFor(loaded, n)} :
            \E s \in {LoadAllPluginsOp(Cur, order, ocs)} : Commit(s, "LoadAllPlugins", EmptyName)

\* Registry.Shutdown(): StopPeriodicDiscovery, then the cleanup of the entries
RegistryShutdown ==
    /\ \E order \in Orders({k \in ToolNames : tools[k] # NoTool}) :
         \E oks \in {f \in [ToolNames -> BOOLEAN] : \A k \in ToolNames : tools[k] = NoTool => f[k]} :
           \E s \in {RegistryShutdownOp(Cur, order, oks)} : CommitCore(s, "Shutdown", EmptyName)
    /\ \E d \in {StopPeriodicDiscoveryOp(CurDiscovery)} :
         /\ discoveryRunning' = d.running
         /\ stopDiscovery' = d.stop
         /\ closedChans' = d.closed
    /\ UNCHANGED <<discoveryEnabled, loops>>

\* The base directory: one directory per plugin name with a well-formed manifest,
\* then one with a manifest that fails validation, then directories without one
DefaultDisk ==
    [d \in Dirs |-> IF d \in Names THEN d
                    ELSE IF d = MaxPlugins + 1 THEN BadManifest ELSE NoManifest]

\* What the loadable units report as their Name(): the manifest name, except that
\* at most one unit reports another name (a clash, a mismatch or the empty name)
PluginNamings ==
    {f \in [Names -> ToolNames] : Cardinality({n \in Names : f[n] # n}) <= 1}

NoLast == [op |-> "none", name |-> EmptyName, wasLoaded |-> FALSE, err |-> "ok", events |-> <<>>,
           attempted |-> {}, errors |-> {}]

NoServe == [pc |-> "none", why |-> "none", obj |-> NoCycle]

NoCall == [op |-> "none", err |-> "ok", afterStart |-> FALSE, prevAlive |-> FALSE,
           launched |-> FALSE, cycle |-> NoCycle]

\* An option of the options bag: absent, or a value of some dynamic type
NoOption == [type |-> "missing", str |-> "", num |-> 0, flag |-> FALSE]

NoRequest == [via |-> "none", serverSet |-> FALSE, protocol |-> "",
              options |-> [k \in {"host", "port", "cors_enabled", "timeout"} |-> NoOption]]

NoAdapter == [type |-> "nil", host |-> "", port |-> 0, cors |-> FALSE, timeout |-> 0]

NoCreated == [op |-> "none", adapter |-> NoAdapter, err |-> "ok"]

\* Server.mcpServer before Server.Start
NoEngine == [started |-> FALSE, handlers |-> [k \in ToolNames |-> NoTool]]

NewMetricsCollector ==
    [requestCount |-> 0, errorCount |-> 0, toolCallCount |-> [k \in ToolNames |-> 0],
     responseTimes |-> <<>>, maxResponseTime |-> 0, avgResponseTime |-> 0]

NoResult == [isError |-> FALSE, text |-> "", err |-> "none"]

NoInvocation == [pc |-> "idle", tool |-> NoTool, toolName |-> EmptyName, outcome |-> "none",
                 duration |-> 0,
                 local |-> NewMetricsCollector, entries |-> <<>>, result |-> NoResult]

InitServer ==
    /\ engine = NoEngine
    /\ metrics = NewMetricsCollector
    /\ metricsMu = NoOwner
    /\ inv = [c \in 1..MaxInvocations |-> NoInvocation]

ScanDirs == 1..MaxScanDirs

NoFile == [stem |-> EmptyName, ext |-> ""]

\* A directory without plugin.json
EmptyDir == [kind |-> "dir", Name |-> EmptyName, Version |-> "", EntryPoint |-> NoFile]

NoMetadata == [Name |-> EmptyName, Version |-> "", EntryPoint |-> NoFile, from |-> NoDir]

\* A base directory of empty directories, nothing discovered
InitScanIdle ==
    /\ fs = [d \in ScanDirs |-> EmptyDir]
    /\ metadata = [n \in Names |-> NoMetadata]

NoApp == [phase |-> "new", trace |-> <<>>, err |-> "none", wasLoaded |-> {}]

\* An application that has not shut down
InitApplication == app = NoApp

\* pm.mu unlocked
NoHolder == [owner |-> NoOwner, readers |-> {}]

NoManagerCall == [op |-> "none", name |-> EmptyName, cur |-> "none", pc |-> "done",
                  err |-> "ok", visited |-> {}, errors |-> {}, gen |-> 0,
                  crossed |-> FALSE]

\* No goroutine calling the plugin manager
InitCallers ==
    /\ pmMu = NoHolder
    /\ mcall = [c \in ManagerCallers |-> NoManagerCall]
    /\ inst = [gen |-> [n \in Names |-> 0], vis |-> [n \in Names |-> 0]]
    /\ fatal = FALSE

\* No construction requested, no server started
InitIdle ==
    /\ facReq = NoRequest
    /\ facOut = NoCreated
    /\ hasMetrics = TRUE
    /\ InitServer
    /\ InitApplication
    /\ InitCallers
    /\ InitScanIdle

\* A transport adapter as its constructor leaves it
InitAdapter ==
    /\ running = FALSE
    /\ cycle = NoCycle
    /\ stoppedCycles = {}
    /\ ctxCancelled = FALSE
    /\ srv = [g \in 1..MaxStarts |-> NoServe]
    /\ mu = "free"
    /\ lastCall = NoCall

InitPluginManager ==
    /\ discovered = {}
    /\ pluginPaths = [n \in Names |-> NoDir]
    /\ plugins = {}
    /\ loaded = {}
    /\ tools = [k \in ToolNames |-> NoTool]
    /\ shutCount = [n \in Names |-> 0]
    /\ instLoaded = [n \in Names |-> FALSE]
    /\ last = NoLast

InitManager == InitPluginManager /\ kind = "stdio" /\ InitAdapter

NoLoop == [pc |-> "none", ch |-> NoChan]

InitDiscovery ==
    /\ discoveryRunning = FALSE
    /\ stopDiscovery = FirstChan
    /\ closedChans = {}
    /\ loops = [l \in 1..MaxLoops |-> NoLoop]

InitRegIdle ==
    /\ toolsLock = NoOwner
    /\ pc = [c \in Callers |-> "done"]
    /\ call = [c \in Callers |-> [op |-> "none", name |-> EmptyName, initOk |-> TRUE,
                                 nilTool |-> FALSE]]
    /\ result = [c \in Callers |-> "none"]
    /\ readers = {}
    /\ initCalled = {}
    /\ initialized = {}
    /\ returned = [c \in Callers |-> <<>>]

Init ==
    /\ disk = DefaultDisk
    /\ pluginName \in PluginNamings
    /\ InitManager
    /\ InitIdle
    /\ InitRegIdle
    /\ discoveryEnabled = FALSE
    /\ InitDiscovery

Next ==
    \/ DiscoverPlugins
    \/ \E n \in Names : LoadPlugin(n)
    \/ \E n \in Names : UnloadPlugin(n)
    \/ \E n \in Names : ReloadPlugin(n)
    \/ RegistryShutdown

Spec == Init /\ [][Next]_vars

\* The manager as the application drives it at start-up and afterwards:
\* discovery, LoadAllPlugins, and single loads and unloads.
NextAll ==
    \/ DiscoverPlugins
    \/ LoadAllPlugins
    \/ \E n \in Names : LoadPlugin(n)
    \/ \E n \in Names : UnloadPlugin(n)

SpecAll == Init /\ [][NextAll]_vars

\* ------------------------------------------- registry, concurrent callers
\* Caller c registers its own tool (tool c) or unregisters a name.  Each caller
\* makes one call; the names callers contend for are 1..MaxContended.
ContendedNames == 1..MaxContended

Calls ==
    [op : {"RegisterTool"}, name : ContendedNames, initOk : BOOLEAN, nilTool : {FALSE}]
    \cup [op : {"UnregisterTool"}, name : ContendedNames, initOk : {TRUE}, nilTool : {FALSE}]

\* Variant of LockFree: a lock that never blocks
LockFreeMut == TRUE

\* toolsLock.Lock() returns only while no one holds the lock, for writing or
\* for reading
LockFree == toolsLock = NoOwner /\ readers = {}

\* RegisterTool: "if _, exists := r.tools[name]; exists"
Exists(name) == tools[name] # NoTool

HooksUnchanged == UNCHANGED <<initCalled, initialized>>

ReadUnchanged == UNCHANGED <<readers, returned>>

RegUnchanged == UNCHANGED <<mgrVars, call>> /\ HooksUnchanged /\ ReadUnchanged

\* RegisterTool: the nil and empty-name checks, made before the lock is taken
RegStart(c) ==
    /\ pc[c] = "start" /\ call[c].op = "RegisterTool"
    /\ IF call[c].nilTool
       THEN /\ result' = [result EXCEPT ![c] = "nil_tool"]
            /\ pc' = [pc EXCEPT ![c] = "done"]
       ELSE IF call[c].name = EmptyName
       THEN /\ result' = [result EXCEPT ![c] = "empty_name"]
            /\ pc' = [pc EXCEPT ![c] = "done"]
       ELSE /\ pc' = [pc EXCEPT ![c] = "lock"]
            /\ UNCHANGED result
    /\ UNCHANGED <<tools, toolsLock>> /\ RegUnchanged

UnregStart(c) ==
    /\ pc[c] = "start" /\ call[c].op = "UnregisterTool"
    /\ pc' = [pc EXCEPT ![c] = "lock"]
    /\ UNCHANGED <<tools, toolsLock, result>> /\ RegUnchanged

\* r.toolsLock.Lock()
AcquireLock(c) ==
    /\ pc[c] = "lock" /\ LockFree
    /\ toolsLock' = c
    /\ pc' = [pc EXCEPT ![c] = IF call[c].op = "RegisterTool" THEN "check" ELSE "lookup"]
    /\ UNCHANGED <<tools, result>> /\ RegUnchanged

RegCheck(c) ==
    /\ pc[c] = "check"
    /\ IF Exists(call[c].name)
       THEN /\ result' = [result EXCEPT ![c] = "duplicate"]
            /\ pc' = [pc EXCEPT ![c] = "unlock"]
       ELSE /\ pc' = [pc EXCEPT ![c] = "init"]
            /\ UNCHANGED result
    /\ UNCHANGED <<tools, toolsLock>> /\ RegUnchanged

\* Variant of InitSucceeded that takes every Initialize() for a success
InitSucceededMut(c) == TRUE

\* RegisterTool: "if err := tool.Initialize(); err != nil" does not fire
InitSucceeded(c) == call[c].initOk

\* tool.Initialize()
RegInit(c) ==
    /\ pc[c] = "init"
    /\ initCalled' = initCalled \cup {c}
    /\ initialized' = IF call[c].initOk THEN initialized \cup {c} ELSE initialized
    /\ IF InitSucceeded(c)
       THEN /\ pc' = [pc EXCEPT ![c] = "insert"]
            /\ UNCHANGED result
       ELSE /\ result' = [result EXCEPT ![c] = "init"]
            /\ pc' = [pc EXCEPT ![c] = "unlock"]
    /\ UNCHANGED <<tools, toolsLock, mgrVars, call>> /\ ReadUnchanged

\* r.tools[name] = tool
RegInsert(c) ==
    /\ pc[c] = "insert"
    /\ tools' = [tools EXCEPT ![call[c].name] = c]
    /\ result' = [result EXCEPT ![c] = "ok"]
    /\ pc' = [pc EXCEPT ![c] = "unlock"]
    /\ UNCHANGED toolsLock /\ RegUnchanged

UnregLookup(c) ==
    /\ pc[c] = "lookup"
    /\ IF Exists(call[c].name)
       THEN /\ pc' = [pc EXCEPT ![c] = "cleanup"]
            /\ UNCHANGED result
       ELSE /\ result' = [result EXCEPT ![c] = "not_found"]
            /\ pc' = [pc EXCEPT ![c] = "unlock"]
    /\ UNCHANGED <<tools, toolsLock>> /\ RegUnchanged

\* tool.Cleanup(), its error only logged
UnregCleanup(c) ==
    /\ pc[c] = "cleanup"
    /\ pc' = [pc EXCEPT ![c] = "delete"]
    /\ UNCHANGED <<tools, toolsLock, result>> /\ RegUnchanged

\* delete(r.tools, name)
UnregDelete(c) ==
    /\ pc[c] = "delete"
    /\ tools' = [tools EXCEPT ![call[c].name] = NoTool]
    /\ result' = [result EXCEPT ![c] = "ok"]
    /\ pc' = [pc EXCEPT ![c] = "unlock"]
    /\ UNCHANGED toolsLock /\ RegUnchanged

\* the deferred r.toolsLock.Unlock()
ReleaseLock(c) ==
    /\ pc[c] = "unlock"
    /\ toolsLock' = NoOwner
    /\ pc' = [pc EXCEPT ![c] = "done"]
    /\ UNCHANGED <<tools, result>> /\ RegUnchanged

\* GetTool / ListTools: r.toolsLock.RLock(), granted while no writer holds the lock
AcquireRLock(c) ==
    /\ pc[c] = "start" /\ call[c].op \in {"GetTool", "ListTools"}
    /\ toolsLock = NoOwner
    /\ readers' = readers \cup {c}
    /\ pc' = [pc EXCEPT ![c] = IF call[c].op = "GetTool" THEN "get" ELSE "list"]
    /\ UNCHANGED <<tools, toolsLock, result, returned, mgrVars, call>> /\ HooksUnchanged

\* GetTool: the lookup and what it returns
GetLookup(c) ==
    /\ pc[c] = "get"
    /\ LET g == GetTool(tools, call[c].name) IN
           /\ result' = [result EXCEPT ![c] = g.err]
           /\ returned' = [returned EXCEPT ![c] = IF g.err = "ok" THEN <<g.tool>> ELSE <<>>]
    /\ pc' = [pc EXCEPT ![c] = "runlock"]
    /\ UNCHANGED <<tools, toolsLock, readers, mgrVars, call>> /\ HooksUnchanged

\* Variant of Snapshot that copies one slot per key the map could hold
SnapshotMut(r, order) == [i \in 1..Cardinality(DOMAIN r) |-> r[i - 1]]

\* ListTools: the new slice filled by "for _, tool := range r.tools", order being
\* the iteration order of the map
Snapshot(r, order) == [i \in 1..Len(order) |-> r[order[i]]]

ListCopy(c) ==
    /\ pc[c] = "list"
    /\ \E order \in Orders({k \in ToolNames : tools[k] # NoTool}) :
           returned' = [returned EXCEPT ![c] = Snapshot(tools, order)]
    /\ result' = [result EXCEPT ![c] = "ok"]
    /\ pc' = [pc EXCEPT ![c] = "runlock"]
    /\ UNCHANGED <<tools, toolsLock, readers, mgrVars, call>> /\ HooksUnchanged

\* the deferred r.toolsLock.RUnlock()
ReleaseRLock(c) ==
    /\ pc[c] = "runlock"
    /\ readers' = readers \ {c}
    /\ pc' = [pc EXCEPT ![c] = "done"]
    /\ UNCHANGED <<tools, toolsLock, result, returned, mgrVars, call>> /\ HooksUnchanged

InitRegHooks ==
    /\ readers = {}
    /\ initCalled = {}
    /\ initialized = {}
    /\ returned = [c \in Callers |-> <<>>]

InitReg ==
    /\ disk = DefaultDisk
    /\ pluginName = [n \in Names |-> n]
    /\ InitManager
    /\ InitIdle
    /\ discoveryEnabled = FALSE
    /\ InitDiscovery
    /\ toolsLock = NoOwner
    /\ pc = [c \in Callers |-> "start"]
    /\ call \in [Callers -> Calls]
    /\ result = [c \in Callers |-> "none"]
    /\ InitRegHooks

NextReg ==
    \/ \E c \in Callers : RegStart(c)
    \/ \E c \in Callers : UnregStart(c)
    \/ \E c \in Callers : AcquireLock(c)
    \/ \E c \in Callers : RegCheck(c)
    \/ \E c \in Callers : RegInit(c)
    \/ \E c \in Callers : RegInsert(c)
    \/ \E c \in Callers : UnregLookup(c)
    \/ \E c \in Callers : UnregCleanup(c)
    \/ \E c \in Callers : UnregDelete(c)
    \/ \E c \in Callers : ReleaseLock(c)

SpecReg == InitReg /\ [][NextReg]_vars

\* --------------------------------- registry, concurrent writers and readers
\* The calls of SpecRW: registrations (also of a nil tool and of a tool with an
\* empty name), unregistrations, GetTool and ListTools.
RWCalls ==
    [op : {"RegisterTool"}, name : ContendedNames, initOk : BOOLEAN, nilTool : {FALSE}]
    \cup [op : {"RegisterTool"}, name : {EmptyName}, initOk : {TRUE}, nilTool : BOOLEAN]
    \cup [op : {"UnregisterTool", "GetTool"}, name : ContendedNames, initOk : {TRUE},
          nilTool : {FALSE}]
    \cup [op : {"ListTools"}, name : {EmptyName}, initOk : {TRUE}, nilTool : {FALSE}]

OpRank(op) ==
    CASE op = "RegisterTool" -> 0 [] op = "UnregisterTool" -> 1
      [] op = "GetTool" -> 2 [] op = "ListTools" -> 3

CallRank(cl) ==
    ((OpRank(cl.op) * (MaxContended + 1) + cl.name) * 2 + (IF cl.initOk THEN 1 ELSE 0)) * 2
        + (IF cl.nilTool THEN 1 ELSE 0)

\* Callers differ only in which call they make (a caller's tool is its own
\* object), so one assignment of calls per multiset of calls is enough.
RWCallVectors ==
    {f \in [Callers -> RWCalls] :
        \A c \in Callers \ {NumCallers} : CallRank(f[c]) <= CallRank(f[c + 1])}

InitRW ==
    /\ disk = DefaultDisk
    /\ pluginName = [n \in Names |-> n]
    /\ InitManager
    /\ InitIdle
    /\ discoveryEnabled = FALSE
    /\ InitDiscovery
    /\ toolsLock = NoOwner
    /\ pc = [c \in Callers |-> "start"]
    /\ call \in RWCallVectors
    /\ result = [c \in Callers |-> "none"]
    /\ InitRegHooks

NextRW ==
    \/ NextReg
    \/ \E c \in Callers : AcquireRLock(c)
    \/ \E c \in Callers : GetLookup(c)
    \/ \E c \in Callers : ListCopy(c)
    \/ \E c \in Callers : ReleaseRLock(c)

SpecRW == InitRW /\ [][NextRW]_vars

\* ------------------------------------------- registry, one caller at a time
\* The registry called directly: tool object t reports pluginName[t] as its
\* Name(); shutCount[t] counts its Cleanup() calls since its last Initialize().
CatRegisterTool(t) ==
    \E initOk \in BOOLEAN :
        \E s \in {RegisterToolCall(Cur, t, initOk)} : Commit(s, "RegisterTool", t)

CatUnregisterTool(k) ==
    \E cleanupOk \in (IF tools[k] # NoTool THEN BOOLEAN ELSE {TRUE}) :
        \E s \in {UnregisterToolCall(Cur, k, cleanupOk)} : Commit(s, "UnregisterTool", k)

InitCat ==
    /\ disk = DefaultDisk
    /\ pluginName \in PluginNamings
    /\ InitManager
    /\ InitIdle
    /\ InitRegIdle
    /\ discoveryEnabled = FALSE
    /\ InitDiscovery

NextCat ==
    \/ \E t \in Names : CatRegisterTool(t)
    \/ \E k \in ToolNames : CatUnregisterTool(k)
    \/ RegistryShutdown

SpecCat == InitCat /\ [][NextCat]_vars

\* ------------------------------------------------------ periodic discovery
LastOf(op, e) ==
    [op |-> op, name |-> EmptyName, wasLoaded |-> FALSE, err |-> e, events |-> <<>>,
     attempted |-> {}, errors |-> {}]

DiscUnchanged ==
    UNCHANGED <<disk, pluginName, discovered, pluginPaths, plugins, loaded, tools, shutCount,
                instLoaded, regVars, discoveryEnabled>>

FreeLoops == {l \in 1..MaxLoops : loops[l].pc = "none"}

\* Registry.StartPeriodicDiscovery(); the loop launched is the next goroutine
StartPeriodicDiscovery ==
    /\ IF ~discoveryEnabled
       THEN /\ last' = LastOf("StartPeriodicDiscovery", "ok")
            /\ UNCHANGED <<discoveryRunning, loops>>
       ELSE IF discoveryRunning
       THEN /\ last' = LastOf("StartPeriodicDiscovery", "already_running")
            /\ UNCHANGED <<discoveryRunning, loops>>
       ELSE /\ FreeLoops # {}
            /\ \E l \in FreeLoops :
                  /\ \A m \in FreeLoops : l <= m
                  /\ loops' = [loops EXCEPT ![l] = [pc |-> "top", ch |-> NoChan]]
            /\ discoveryRunning' = TRUE
            /\ last' = LastOf("StartPeriodicDiscovery", "ok")
    /\ UNCHANGED <<stopDiscovery, closedChans>>
    /\ DiscUnchanged

\* Registry.StopPeriodicDiscovery()
StopPeriodicDiscovery ==
    /\ \E d \in {StopPeriodicDiscoveryOp(CurDiscovery)} :
         /\ discoveryRunning' = d.running
         /\ stopDiscovery' = d.stop
         /\ closedChans' = d.closed
    /\ last' = LastOf("StopPeriodicDiscovery", "ok")
    /\ UNCHANGED loops
    /\ DiscUnchanged

\* periodicDiscoveryLoop: the select statement is entered; its second case
\* receives from the channel r.stopDiscovery holds at this moment
LoopSelect(l) ==
    /\ loops[l].pc = "top"
    /\ loops' = [loops EXCEPT ![l] = [pc |-> "select", ch |-> stopDiscovery]]
    /\ UNCHANGED <<last, discoveryRunning, stopDiscovery, closedChans>>
    /\ DiscUnchanged

\* periodicDiscoveryLoop: "case <-ticker.C", DiscoverTools(), back to the for
LoopTick(l) ==
    /\ loops[l].pc = "select"
    /\ loops' = [loops EXCEPT ![l] = [pc |-> "top", ch |-> NoChan]]
    /\ UNCHANGED <<last, discoveryRunning, stopDiscovery, closedChans>>
    /\ DiscUnchanged

\* periodicDiscoveryLoop: "case <-r.stopDiscovery: return", ready once the
\* channel the select received from is closed
LoopExit(l) ==
    /\ loops[l].pc = "select"
    /\ loops[l].ch \in closedChans
    /\ loops' = [loops EXCEPT ![l] = [pc |-> "exited", ch |-> NoChan]]
    /\ UNCHANGED <<last, discoveryRunning, stopDiscovery, closedChans>>
    /\ DiscUnchanged

InitDisc ==
    /\ disk = DefaultDisk
    /\ pluginName = [n \in Names |-> n]
    /\ InitManager
    /\ InitIdle
    /\ InitRegIdle
    /\ discoveryEnabled \in BOOLEAN
    /\ InitDiscovery

NextDisc ==
    \/ \E t \in Names : CatRegisterTool(t)
    \/ \E k \in ToolNames : CatUnregisterTool(k)
    \/ RegistryShutdown
    \/ StartPeriodicDiscovery
    \/ StopPeriodicDiscovery
    \/ \E l \in 1..MaxLoops : LoopSelect(l)
    \/ \E l \in 1..MaxLoops : LoopTick(l)
    \/ \E l \in 1..MaxLoops : LoopExit(l)

SpecDisc == InitDisc /\ [][NextDisc]_vars

\* ------------------------------------------------------ transport adapters
\* One adapter: STDIOAdapter, SSEAdapter or HTTPAdapter.  Start and Stop run
\* under adapter.mu; the serving goroutine of a cycle runs beside them and takes
\* the lock only in its deferred exit handler.
AdapterKinds == {"stdio", "sse", "http"}

HttpBased == kind # "stdio"

TUnchanged ==
    UNCHANGED <<disk, pluginName, discovered, pluginPaths, plugins, loaded, tools, shutCount,
                instLoaded, last, discVars, toolsLock, pc, call, result, readers, initCalled,
                initialized, returned, kind, extVars>>

\* ctx.Err() != nil for the context of cycle g (STDIO), Shutdown called on the
\* http.Server of cycle g (SSE, HTTP; these never look at the context)
Closed(g) == g \in stoppedCycles \/ (~HttpBased /\ ctxCancelled)

Alive(g) == g # NoCycle /\ srv[g].pc \in {"spawned", "serving"}

\* IsHealthy()
IsHealthy ==
    IF HttpBased THEN running /\ cycle # NoCycle
    ELSE running /\ cycle # NoCycle /\ ~Closed(cycle)

CallOf(op, e, launched) ==
    [op |-> op, err |-> e,
     afterStart |-> op = "Start" /\ lastCall.op = "Start" /\ lastCall.err = "ok",
     prevAlive |-> op = "Start" /\ lastCall.op = "Start" /\ lastCall.err = "ok" /\ Alive(cycle),
     launched |-> launched, cycle |-> IF launched THEN cycle + 1 ELSE cycle]

\* Start(ctx): the running check, the new ctx / http.Server, the goroutine, the flag
Start ==
    /\ mu = "free"
    /\ IF running
       THEN /\ lastCall' = CallOf("Start", "already_running", FALSE)
            /\ UNCHANGED <<running, cycle, srv>>
       ELSE /\ cycle < MaxStarts
            /\ cycle' = cycle + 1
            /\ srv' = [srv EXCEPT ![cycle + 1] = [pc |-> "spawned", why |-> "none", obj |-> NoCycle]]
            /\ running' = TRUE
            /\ lastCall' = CallOf("Start", "ok", TRUE)
    /\ UNCHANGED <<stoppedCycles, ctxCancelled, mu>>
    /\ TUnchanged

\* Variant of StopIsNoop: Stop never returns early
StopIsNoopMut == FALSE

\* Stop: "if !s.running" (STDIO), "if !h.running || h.httpServer == nil" (SSE, HTTP)
StopIsNoop == ~running \/ (HttpBased /\ cycle = NoCycle)

\* STDIOAdapter.Stop(): cancel the context, clear the flag
StdioStop ==
    /\ ~HttpBased /\ mu = "free"
    /\ IF StopIsNoop
       THEN UNCHANGED <<running, stoppedCycles>>
       ELSE /\ stoppedCycles' = stoppedCycles \cup {cycle}
            /\ running' = FALSE
    /\ lastCall' = CallOf("Stop", "ok", FALSE)
    /\ UNCHANGED <<cycle, ctxCancelled, srv, mu>>
    /\ TUnchanged

\* SSEAdapter.Stop / HTTPAdapter.Stop up to the call of httpServer.Shutdown,
\* which closes the listener at once and then waits for the connections
HttpStopBegin ==
    /\ HttpBased /\ mu = "free"
    /\ IF StopIsNoop
       THEN /\ lastCall' = CallOf("Stop", "ok", FALSE)
            /\ UNCHANGED <<stoppedCycles, mu>>
       ELSE /\ stoppedCycles' = stoppedCycles \cup {cycle}
            /\ mu' = "draining"
            /\ UNCHANGED lastCall
    /\ UNCHANGED <<running, cycle, ctxCancelled, srv>>
    /\ TUnchanged

\* Shutdown returns nil: every connection has drained
StopDrained ==
    /\ mu = "draining"
    /\ running' = FALSE
    /\ mu' = "free"
    /\ lastCall' = CallOf("Stop", "ok", FALSE)
    /\ UNCHANGED <<cycle, stoppedCycles, ctxCancelled, srv>>
    /\ TUnchanged

\* Variant of ShutdownCtxExpires: Shutdown is handed a context without a deadline
ShutdownCtxExpiresMut == FALSE

\* Stop: "context.WithTimeout(context.Background(), 10*time.Second)"
ShutdownCtxExpires == TRUE

\* Shutdown returns the context's error: the deadline passed first
StopTimeout ==
    /\ mu = "draining"
    /\ ShutdownCtxExpires
    /\ running' = FALSE
    /\ mu' = "free"
    /\ lastCall' = CallOf("Stop", "deadline", FALSE)
    /\ UNCHANGED <<cycle, stoppedCycles, ctxCancelled, srv>>
    /\ TUnchanged

\* The caller of Start(ctx) cancels ctx
CancelContext ==
    /\ ~ctxCancelled
    /\ ctxCancelled' = TRUE
    /\ UNCHANGED <<running, cycle, stoppedCycles, srv, mu, lastCall>>
    /\ TUnchanged

GoUnchanged == UNCHANGED <<cycle, stoppedCycles, ctxCancelled, mu, lastCall>> /\ TUnchanged

\* The goroutine of cycle g calls ListenAndServe (SSE, HTTP) or Listen (STDIO)
\* on what it reads from the field s.httpServer / s.ctx, without the mutex: the
\* object its own Start stored or, when a later Start has stored another one
\* since, that one (obj is the cycle whose object it got).  The call returns at
\* once when that object is shut down / cancelled, or when the address cannot
\* be bound, which is certain while another serving loop of this adapter holds it.
ServeBegin(g) ==
    /\ srv[g].pc = "spawned"
    /\ \E o \in {g, cycle} :
         IF Closed(o)
         THEN srv' = [srv EXCEPT ![g] = [pc |-> "returned", why |-> "closed", obj |-> NoCycle]]
         ELSE IF HttpBased
         THEN \E bound \in (IF \E h \in 1..MaxStarts : srv[h].pc = "serving"
                            THEN {FALSE} ELSE BOOLEAN) :
                  srv' = [srv EXCEPT ![g] =
                             IF bound THEN [pc |-> "serving", why |-> "none", obj |-> o]
                             ELSE [pc |-> "returned", why |-> "bind", obj |-> NoCycle]]
         ELSE srv' = [srv EXCEPT ![g] = [pc |-> "serving", why |-> "none", obj |-> o]]
    /\ UNCHANGED running
    /\ GoUnchanged

\* The serving loop of cycle g returns: the object it serves was stopped, or it
\* ends on its own (end of input, a failing listener)
ServeExit(g) ==
    /\ srv[g].pc = "serving"
    /\ srv' = [srv EXCEPT ![g] = [pc |-> "returned",
                                  why |-> IF Closed(srv[g].obj) THEN "closed" ELSE "self",
                                  obj |-> NoCycle]]
    /\ UNCHANGED running
    /\ GoUnchanged

\* Variant of AfterExit: the exit handler leaves the flag as it is
AfterExitMut(r) == r

\* The goroutine's deferred function: "s.running = false"
AfterExit(r) == FALSE

Deferred(g) ==
    /\ srv[g].pc = "returned"
    /\ mu = "free"
    /\ running' = AfterExit(running)
    /\ srv' = [srv EXCEPT ![g] = [pc |-> "done", why |-> "none", obj |-> NoCycle]]
    /\ GoUnchanged

InitT ==
    /\ disk = DefaultDisk
    /\ pluginName = [n \in Names |-> n]
    /\ InitPluginManager
    /\ InitIdle
    /\ InitRegIdle
    /\ discoveryEnabled = FALSE
    /\ InitDiscovery
    /\ kind \in AdapterKinds
    /\ InitAdapter

NextT ==
    \/ Start
    \/ StdioStop
    \/ HttpStopBegin
    \/ StopDrained
    \/ StopTimeout
    \/ CancelContext
    \/ \E g \in 1..MaxStarts : ServeBegin(g)
    \/ \E g \in 1..MaxStarts : ServeExit(g)
    \/ \E g \in 1..MaxStarts : Deferred(g)

SpecT == InitT /\ [][NextT]_vars

\* A goroutine that has returned from its serving loop is scheduled and the
\* mutex is handed to its exit handler; the timer of the Shutdown context fires.
FairT ==
    /\ WF_vars(\E g \in 1..MaxStarts : Deferred(g))
    /\ WF_vars(StopTimeout)

SpecTFair == InitT /\ [][NextT]_vars /\ FairT

\* Besides, a serving call whose context is cancelled or whose server is shut
\* down returns: Listen(ctx) watches ctx, ListenAndServe returns after Shutdown.
FairServe ==
    WF_vars(\E g \in 1..MaxStarts : ServeBegin(g) \/ (Closed(srv[g].obj) /\ ServeExit(g)))

SpecTCancel == InitT /\ [][NextT]_vars /\ FairT /\ FairServe

\* ------------------------------------------------------ transport factory
\* The options bag is a map[string]interface{}: every value carries its
\* dynamic type.  A float64 is held in tenths, a duration in seconds.
DefaultSSEPort == 26841
DefaultHTTPPort == 26842
DefaultTimeout == 30

OptionKeys == {"host", "port", "cors_enabled", "timeout"}

StringOf(s) == [type |-> "string", str |-> s, num |-> 0, flag |-> FALSE]
IntOf(n) == [type |-> "int", str |-> "", num |-> n, flag |-> FALSE]
Float64Of(tenths) == [type |-> "float64", str |-> "", num |-> tenths, flag |-> FALSE]
BoolOf(b) == [type |-> "bool", str |-> "", num |-> 0, flag |-> b]
DurationOf(n) == [type |-> "time.Duration", str |-> "", num |-> n, flag |-> FALSE]

\* int(num) of a float64: the fraction is dropped, towards zero
IntOfFloat(tenths) ==
    IF tenths >= 0 THEN tenths \div 10 ELSE -((-tenths) \div 10)

\* time.ParseDuration on the strings the requests use: a number needs a unit
ParseDuration(str) ==
    CASE str = "5s" -> [ok |-> TRUE, d |-> 5]
      [] str = "1m" -> [ok |-> TRUE, d |-> 60]
      [] OTHER -> [ok |-> FALSE, d |-> 0]

getStringOptionMut(options, key, defaultValue) ==
    IF options[key].type # "missing" THEN options[key].str ELSE defaultValue

getStringOption(options, key, defaultValue) ==
    IF options[key].type # "missing" /\ options[key].type = "string"
    THEN options[key].str ELSE defaultValue

getIntOption(options, key, defaultValue) ==
    IF options[key].type # "missing" /\ options[key].type = "int" THEN options[key].num
    ELSE IF options[key].type # "missing" /\ options[key].type = "float64"
         THEN IntOfFloat(options[key].num)
         ELSE defaultValue

getBoolOption(options, key, defaultValue) ==
    IF options[key].type # "missing" /\ options[key].type = "bool"
    THEN options[key].flag ELSE defaultValue

getDurationOption(options, key, defaultValue) ==
    IF /\ options[key].type # "missing"
       /\ options[key].type = "string"
       /\ ParseDuration(options[key].str).ok
    THEN ParseDuration(options[key].str).d ELSE defaultValue

NewSTDIOAdapter == [type |-> "STDIOAdapter", host |-> "", port |-> 0, cors |-> FALSE, timeout |-> 0]

NewSSEAdapter(sseConfig) ==
    [type |-> "SSEAdapter", host |-> sseConfig.Host, port |-> sseConfig.Port,
     cors |-> sseConfig.CORSEnabled, timeout |-> 0]

NewHTTPAdapter(httpConfig) ==
    [type |-> "HTTPAdapter", host |-> httpConfig.Host, port |-> httpConfig.Port,
     cors |-> FALSE, timeout |-> httpConfig.Timeout]

\* Name() of the three adapters
Name(a) ==
    CASE a.type = "STDIOAdapter" -> "stdio"
      [] a.type = "SSEAdapter" -> "sse"
      [] a.type = "HTTPAdapter" -> "http"

SupportedProtocols == {"stdio", "sse", "http"}

Created(op, a) == [op |-> op, adapter |-> a, err |-> "ok"]
Unsupported(op) == [op |-> op, adapter |-> NoAdapter, err |-> "unsupported transport protocol"]

\* CreateTransportFromConfig(transportConfig, mcpServer)
CreateTransportFromConfigOp(op, transportConfig) ==
    LET protocol == transportConfig.protocol
        options == transportConfig.options
    IN CASE protocol = "stdio" -> Created(op, NewSTDIOAdapter)
         [] protocol = "sse" ->
              Created(op, NewSSEAdapter(
                  [Host |-> getStringOption(options, "host", "localhost"),
                   Port |-> getIntOption(options, "port", DefaultSSEPort),
                   CORSEnabled |-> getBoolOption(options, "cors_enabled", TRUE)]))
         [] protocol = "http" ->
              Created(op, NewHTTPAdapter(
                  [Host |-> getStringOption(options, "host", "localhost"),
                   Port |-> getIntOption(options, "port", DefaultHTTPPort),
                   Timeout |-> getDurationOption(options, "timeout", DefaultTimeout)]))
         [] OTHER -> Unsupported(op)

\* Factory.CreateTransport(transportConfig)
FactoryCreateTransportOp(req) ==
    IF ~req.serverSet
    THEN [op |-> "Factory.CreateTransport", adapter |-> NoAdapter,
          err |-> "MCP server not set in factory"]
    ELSE CreateTransportFromConfigOp("Factory.CreateTransport", req)

\* CreateTransport(protocol, mcpServer, cfg): cfg is the typed configuration
CreateTransportOp(op, protocol, cfg) ==
    CASE protocol = "stdio" -> Created(op, NewSTDIOAdapter)
      [] protocol = "sse" ->
           Created(op, NewSSEAdapter([Host |-> cfg.SSE.Host, Port |-> cfg.SSE.Port,
                                      CORSEnabled |-> cfg.SSE.CORSEnabled]))
      [] protocol = "http" ->
           Created(op, NewHTTPAdapter([Host |-> cfg.HTTP.Host, Port |-> cfg.HTTP.Port,
                                       Timeout |-> cfg.HTTP.Timeout]))
      [] OTHER -> Unsupported(op)

\* config.Load: defaultConfig() overlaid with the keys the file gives for the
\* section of its protocol; the file's values have the types of the fields
LoadedConfig(req) ==
    LET o == req.options
        has(k) == o[k].type # "missing"
        sse == req.protocol = "sse"
        http == req.protocol = "http"
    IN [Protocol |-> req.protocol,
        SSE |-> [Host |-> IF sse /\ has("host") THEN o["host"].str ELSE "localhost",
                 Port |-> IF sse /\ has("port") THEN o["port"].num ELSE DefaultSSEPort,
                 CORSEnabled |-> IF sse /\ has("cors_enabled") THEN o["cors_enabled"].flag
                                 ELSE TRUE],
        HTTP |-> [Host |-> IF http /\ has("host") THEN o["host"].str ELSE "localhost",
                  Port |-> IF http /\ has("port") THEN o["port"].num ELSE DefaultHTTPPort,
                  Timeout |-> IF http /\ has("timeout") THEN ParseDuration(o["timeout"].str).d
                              ELSE DefaultTimeout]]

\* CreateTransportFromFullConfig(cfg, mcpServer)
CreateTransportFromFullConfigOp(cfg) ==
    CreateTransportOp("CreateTransportFromFullConfig", cfg.Protocol, cfg)

\* What callers put under each key of the bag
OptionValues ==
    [host |-> {NoOption, StringOf("0.0.0.0"), IntOf(7)},
     port |-> {NoOption, IntOf(8080), Float64Of(80809), StringOf("8080")},
     cors_enabled |-> {NoOption, BoolOf(FALSE), StringOf("false")},
     timeout |-> {NoOption, StringOf("5s"), StringOf("30"), IntOf(5), DurationOf(5)}]

\* What a configuration file can hold under each key
FileValues ==
    [host |-> {NoOption, StringOf("0.0.0.0")},
     port |-> {NoOption, IntOf(8080)},
     cors_enabled |-> {NoOption, BoolOf(FALSE)},
     timeout |-> {NoOption, StringOf("5s"), StringOf("1m")}]

ProtocolNames == {"stdio", "sse", "http", "grpc", "STDIO", ""}

Bags(values) == {o \in [OptionKeys -> UNION {values[k] : k \in OptionKeys}] :
                    \A k \in OptionKeys : o[k] \in values[k]}

Requests ==
    {[via |-> v, serverSet |-> s, protocol |-> p, options |-> o] :
        v \in {"config"}, s \in {TRUE}, p \in ProtocolNames, o \in Bags(OptionValues)}
    \cup {[via |-> v, serverSet |-> s, protocol |-> p, options |-> o] :
        v \in {"factory"}, s \in BOOLEAN, p \in ProtocolNames, o \in Bags(OptionValues)}
    \cup {[via |-> v, serverSet |-> s, protocol |-> p, options |-> o] :
        v \in {"full"}, s \in {TRUE}, p \in ProtocolNames, o \in Bags(FileValues)}

FacUnchanged ==
    UNCHANGED <<disk, pluginName, discovered, pluginPaths, plugins, loaded, tools, shutCount,
                instLoaded, last, discVars, toolsLock, pc, call, result, readers, initCalled,
                initialized, returned, tVars, facReq, srvVars, scanVars, appVars, muVars>>

CreateTransportFromConfig ==
    /\ facReq.via = "config"
    /\ facOut.op = "none"
    /\ facOut' = CreateTransportFromConfigOp("CreateTransportFromConfig", facReq)
    /\ FacUnchanged

FactoryCreateTransport ==
    /\ facReq.via = "factory"
    /\ facOut.op = "none"
    /\ facOut' = FactoryCreateTransportOp(facReq)
    /\ FacUnchanged

CreateTransportFromFullConfig ==
    /\ facReq.via = "full"
    /\ facOut.op = "none"
    /\ facOut' = CreateTransportFromFullConfigOp(LoadedConfig(facReq))
    /\ FacUnchanged

InitFac ==
    /\ disk = DefaultDisk
    /\ pluginName = [n \in Names |-> n]
    /\ InitManager
    /\ InitRegIdle
    /\ discoveryEnabled = FALSE
    /\ InitDiscovery
    /\ facReq \in Requests
    /\ facOut = NoCreated
    /\ hasMetrics = TRUE
    /\ InitServer
    /\ InitApplication
    /\ InitCallers
    /\ InitScanIdle

NextFac ==
    \/ CreateTransportFromConfig
    \/ FactoryCreateTransport
    \/ CreateTransportFromFullConfig

SpecFac == InitFac /\ [][NextFac]_vars

\* ---------------------------------------------------- server and dispatch
\* Server.Start bridges the registry to the protocol engine (mcpServer); the
\* engine then runs one handler invocation per tool call, concurrently.  A tool
\* is the object t whose Name(), and whose MCPToolDefinition().Name, is
\* pluginName[t].
Invokers == 1..MaxInvocations

\* What tool.Execute returns: a value, or an error
ExecOutcomes == {"result", "error"}

\* registerTools: AddTool(name, handler) for every tool ListTools returned
registerTools(r) == [k \in ToolNames |-> r[k]]

\* The response times time.Since(startTime) may give
Durations == {1, 3}

RECURSIVE Sum(_)
Sum(q) == IF q = <<>> THEN 0 ELSE Head(q) + Sum(Tail(q))

\* Variant of Window that never drops a sample
WindowMut(q, duration) == Append(q, duration)

\* RecordRequest: the append to m.responseTimes and the cut to the last samples
Window(q, duration) ==
    IF Len(Append(q, duration)) > MaxWindow THEN Tail(Append(q, duration))
    ELSE Append(q, duration)

\* MetricsCollector.RecordRequest on the collector m
RecordRequest(m, duration, toolName, isError) ==
    [requestCount |-> m.requestCount + 1,
     errorCount |-> IF isError THEN m.errorCount + 1 ELSE m.errorCount,
     toolCallCount |-> IF toolName # EmptyName
                       THEN [m.toolCallCount EXCEPT ![toolName] = @ + 1]
                       ELSE m.toolCallCount,
     responseTimes |-> Window(m.responseTimes, duration),
     maxResponseTime |-> IF duration > m.maxResponseTime THEN duration
                         ELSE m.maxResponseTime,
     avgResponseTime |-> Sum(Window(m.responseTimes, duration))
                             \div Len(Window(m.responseTimes, duration))]

\* Variant of HandlerResult that hands the error of Execute to the engine
HandlerResultMut(outcome) ==
    IF outcome = "error"
    THEN [isError |-> FALSE, text |-> "", err |-> "execute"]
    ELSE [isError |-> FALSE, text |-> "result text", err |-> "nil"]

\* What the handler returns: (*mcp.CallToolResult, error)
HandlerResult(outcome) ==
    IF outcome = "error"
    THEN [isError |-> TRUE, text |-> "Error executing tool", err |-> "nil"]
    ELSE [isError |-> FALSE, text |-> "result text", err |-> "nil"]

\* Variant of MetricsFree without mutual exclusion
MetricsFreeMut == TRUE

\* m.mu.Lock() can be taken
MetricsFree == metricsMu = NoOwner

SrvUnchanged ==
    UNCHANGED <<disk, pluginName, discovered, pluginPaths, plugins, loaded, tools, shutCount,
                instLoaded, last, discVars, toolsLock, pc, call, result, readers, initCalled,
                initialized, returned, tVars, facVars, hasMetrics, scanVars, appVars, muVars>>

\* Server.Start(): a new mcpServer, then registerTools
ServerStart ==
    /\ ~engine.started
    /\ engine' = [started |-> TRUE, handlers |-> registerTools(tools)]
    /\ UNCHANGED <<metrics, metricsMu, inv>>
    /\ SrvUnchanged

\* A tools/call request for the name k: the engine finds the handler added
\* under k and runs it up to the call of Execute (startTime, tool.Name(),
\* the arguments); without a handler it answers by itself
CallTool(c, k) ==
    /\ engine.started
    /\ inv[c].pc = "idle"
    /\ inv' = [inv EXCEPT ![c] =
                 IF engine.handlers[k] = NoTool
                 THEN [@ EXCEPT !.pc = "done",
                                !.result = [isError |-> FALSE, text |-> "",
                                            err |-> "tool not found"]]
                 ELSE [@ EXCEPT !.pc = "handler", !.tool = engine.handlers[k],
                                !.toolName = pluginName[engine.handlers[k]]]]
    /\ UNCHANGED <<engine, metrics, metricsMu>>
    /\ SrvUnchanged

\* tool.Execute(ctx, input) returns; duration := time.Since(startTime)
Execute(c) ==
    /\ inv[c].pc = "handler"
    /\ \E oc \in ExecOutcomes : \E d \in Durations :
          inv' = [inv EXCEPT ![c].pc = "executed", ![c].outcome = oc, ![c].duration = d]
    /\ UNCHANGED <<engine, metrics, metricsMu>>
    /\ SrvUnchanged

\* s.metrics == nil: nothing is recorded
SkipMetrics(c) ==
    /\ inv[c].pc = "executed"
    /\ ~hasMetrics
    /\ inv' = [inv EXCEPT ![c].pc = "recorded"]
    /\ UNCHANGED <<engine, metrics, metricsMu>>
    /\ SrvUnchanged

\* RecordRequest: m.mu.Lock() and the loads of the counters
RecordLoad(c) ==
    /\ inv[c].pc = "executed"
    /\ hasMetrics
    /\ MetricsFree
    /\ metricsMu' = c
    /\ inv' = [inv EXCEPT ![c].pc = "loaded", ![c].local = metrics]
    /\ UNCHANGED <<engine, metrics>>
    /\ SrvUnchanged

\* RecordRequest: the stores of the incremented counters
RecordStore(c) ==
    /\ inv[c].pc = "loaded"
    /\ metrics' = RecordRequest(inv[c].local, inv[c].duration, inv[c].toolName,
                                inv[c].outcome = "error")
    /\ inv' = [inv EXCEPT ![c].pc = "stored", ![c].local = NewMetricsCollector,
                          ![c].entries = Append(@, [toolName |-> inv[c].toolName,
                                                    isError |-> inv[c].outcome = "error"])]
    /\ UNCHANGED <<engine, metricsMu>>
    /\ SrvUnchanged

\* RecordRequest: the deferred m.mu.Unlock()
MetricsUnlock(c) ==
    /\ inv[c].pc = "stored"
    /\ metricsMu' = NoOwner
    /\ inv' = [inv EXCEPT ![c].pc = "recorded"]
    /\ UNCHANGED <<engine, metrics>>
    /\ SrvUnchanged

\* The handler returns its result to the engine
Respond(c) ==
    /\ inv[c].pc = "recorded"
    /\ inv' = [inv EXCEPT ![c].pc = "done", ![c].result = HandlerResult(inv[c].outcome)]
    /\ UNCHANGED <<engine, metrics, metricsMu>>
    /\ SrvUnchanged

Invoke(c) ==
    \/ \E k \in Names : CallTool(c, k)
    \/ Execute(c)
    \/ SkipMetrics(c)
    \/ RecordLoad(c)
    \/ RecordStore(c)
    \/ MetricsUnlock(c)
    \/ Respond(c)

\* The server of an application whose plugins were loaded before Server.Start:
\* the registry holds the tools of some plugins
InitSrv ==
    /\ disk = DefaultDisk
    /\ pluginName = [n \in Names |-> n]
    /\ discovered = {}
    /\ pluginPaths = [n \in Names |-> NoDir]
    /\ plugins = {}
    /\ loaded = {}
    /\ \E R \in SUBSET Names : tools = [k \in ToolNames |-> IF k \in R THEN k ELSE NoTool]
    /\ shutCount = [n \in Names |-> 0]
    /\ instLoaded = [n \in Names |-> FALSE]
    /\ last = NoLast
    /\ kind = "stdio"
    /\ InitAdapter
    /\ InitRegIdle
    /\ discoveryEnabled = FALSE
    /\ InitDiscovery
    /\ facReq = NoRequest
    /\ facOut = NoCreated
    /\ hasMetrics \in BOOLEAN
    /\ InitServer
    /\ InitApplication
    /\ InitCallers
    /\ InitScanIdle

NextSrv ==
    \/ ServerStart
    \/ \E c \in Invokers : Invoke(c)

SpecSrv == InitSrv /\ [][NextSrv]_vars

\* A collector called directly: any sequence of RecordRequest calls, each
\* whole under m.mu, with any duration, any tool name (the empty one
\* included) and any error flag; the calls are logged as entries of caller 1
RecordRequestCall ==
    /\ metrics.requestCount < MaxRequests
    /\ MetricsFree
    /\ \E d \in Durations : \E t \in ToolNames : \E e \in BOOLEAN :
          /\ metrics' = RecordRequest(metrics, d, t, e)
          /\ inv' = [inv EXCEPT ![1].entries = Append(@, [toolName |-> t, isError |-> e])]
    /\ UNCHANGED <<engine, metricsMu>>
    /\ SrvUnchanged

InitMetrics ==
    /\ disk = DefaultDisk
    /\ pluginName = [n \in Names |-> n]
    /\ InitManager
    /\ InitRegIdle
    /\ discoveryEnabled = FALSE
    /\ InitDiscovery
    /\ InitIdle

NextMetrics == RecordRequestCall

SpecMetrics == InitMetrics /\ [][NextMetrics]_vars

\* The server beside a registry that changes: tools are registered and
\* unregistered before and after Server.Start, and one client calls
InitBridge ==
    /\ disk = DefaultDisk
    /\ pluginName = [n \in Names |-> n]
    /\ InitManager
    /\ InitRegIdle
    /\ discoveryEnabled = FALSE
    /\ InitDiscovery
    /\ facReq = NoRequest
    /\ facOut = NoCreated
    /\ hasMetrics \in BOOLEAN
    /\ InitServer
    /\ InitApplication
    /\ InitCallers
    /\ InitScanIdle

NextBridge ==
    \/ ServerStart
    \/ \E t \in Names : CatRegisterTool(t)
    \/ \E k \in ToolNames : CatUnregisterTool(k)
    \/ Invoke(1)

SpecBridge == InitBridge /\ [][NextBridge]_vars

\* ------------------------------------------------- discovery, in full
\* The base directory with what each entry is: a plain file, a directory
\* without plugin.json, a plugin.json that is not JSON ("garbage"), or a
\* manifest with its name, version and entry_point.  A file name is a stem and
\* an extension; os.ReadDir returns the entries sorted by name, here 1, 2, ...
SoFile(n) == [stem |-> n, ext |-> ".so"]

Manifests ==
    UNION {{[kind |-> "manifest", Name |-> n, Version |-> "1.0.0", EntryPoint |-> e] :
               e \in {SoFile(n), [stem |-> n, ext |-> ".plugin"], NoFile}} : n \in Names}
    \cup {[kind |-> "manifest", Name |-> n, Version |-> "", EntryPoint |-> SoFile(n)] : n \in Names}
    \cup {[kind |-> "manifest", Name |-> EmptyName, Version |-> "1.0.0",
           EntryPoint |-> SoFile(EmptyName)]}

Entries ==
    Manifests \cup {EmptyDir, [EmptyDir EXCEPT !.kind = "file"], [EmptyDir EXCEPT !.kind = "garbage"]}

\* loadMetadata(path): ReadFile, Unmarshal, the three required fields
loadMetadata(e) ==
    IF e.kind = "garbage" THEN "unmarshal"
    ELSE IF e.Name = EmptyName THEN "plugin name is required"
    ELSE IF e.Version = "" THEN "plugin version is required"
    ELSE IF e.EntryPoint = NoFile THEN "plugin entry_point is required"
    ELSE "ok"

Record(e, d) == [Name |-> e.Name, Version |-> e.Version, EntryPoint |-> e.EntryPoint, from |-> d]

\* Variant of ScanEntry that keeps the metadata recorded first for a name
ScanEntryMut(dp, d) ==
    LET e == fs[d] IN
    IF e.kind \in {"file", "dir"} \/ loadMetadata(e) # "ok" THEN dp
    ELSE [paths |-> [dp.paths EXCEPT ![e.Name] = d],
          meta |-> IF e.Name \in dp.disc THEN dp.meta
                   ELSE [dp.meta EXCEPT ![e.Name] = Record(e, d)],
          disc |-> dp.disc \cup {e.Name}]

\* DiscoverPlugins: one iteration of the loop over the entries
ScanEntry(dp, d) ==
    LET e == fs[d] IN
    IF e.kind = "file" THEN dp
    ELSE IF e.kind = "dir" THEN dp
    ELSE IF loadMetadata(e) # "ok" THEN dp
    ELSE [paths |-> [dp.paths EXCEPT ![e.Name] = d],
          meta |-> [dp.meta EXCEPT ![e.Name] = Record(e, d)],
          disc |-> dp.disc \cup {e.Name}]

RECURSIVE ScanEntries(_, _)
ScanEntries(dp, d) == IF d > MaxScanDirs THEN dp ELSE ScanEntries(ScanEntry(dp, d), d + 1)

ScanUnchanged ==
    UNCHANGED <<disk, pluginName, plugins, loaded, tools, shutCount, instLoaded, discVars,
                toolsLock, pc, call, result, readers, initCalled, initialized, returned,
                tVars, facVars, srvVars, appVars, muVars>>

\* PluginManager.DiscoverPlugins() on the base directory fs; MkdirAll or ReadDir
\* can fail
DiscoverPluginsIn ==
    \E fsOk \in BOOLEAN :
        LET now == [paths |-> pluginPaths, meta |-> metadata, disc |-> discovered]
            dp == IF fsOk THEN ScanEntries(now, 1) ELSE now
        IN  /\ pluginPaths' = dp.paths
            /\ metadata' = dp.meta
            /\ discovered' = dp.disc
            /\ last' = LastOf("DiscoverPlugins", IF fsOk THEN "ok" ELSE "readdir")
            /\ UNCHANGED fs
            /\ ScanUnchanged

\* The plugin.json of a directory is deleted
RemoveManifest(d) ==
    /\ fs[d].kind \in {"manifest", "garbage"}
    /\ fs' = [fs EXCEPT ![d] = EmptyDir]
    /\ last' = LastOf("RemoveManifest", "ok")
    /\ UNCHANGED <<pluginPaths, metadata, discovered>>
    /\ ScanUnchanged

\* The path LoadPlugin(n) hands to plugin.Open
OpenedPath(n) == [dir |-> pluginPaths[n], file |-> SoFile(n)]

\* PluginManager.ListPlugins(): one status record per name of pm.pluginPaths
ListPlugins ==
    [n \in {k \in Names : pluginPaths[k] # NoDir} |->
        [Name |-> n, Directory |-> pluginPaths[n], Discovered |-> TRUE, Loaded |-> n \in plugins]]

InitScan ==
    /\ disk = DefaultDisk
    /\ pluginName = [n \in Names |-> n]
    /\ InitManager
    /\ InitRegIdle
    /\ discoveryEnabled = FALSE
    /\ InitDiscovery
    /\ facReq = NoRequest
    /\ facOut = NoCreated
    /\ hasMetrics = TRUE
    /\ InitServer
    /\ InitApplication
    /\ InitCallers
    /\ fs \in [ScanDirs -> Entries]
    /\ metadata = [n \in Names |-> NoMetadata]

NextScan ==
    \/ DiscoverPluginsIn
    \/ \E d \in ScanDirs : RemoveManifest(d)
    \/ \E n \in Names : LoadPlugin(n)

SpecScan == InitScan /\ [][NextScan]_vars

\* ------------------------------------------------------------ application
\* App: initialize discovers and loads the plugins, Run starts the transport
\* with the root context, Shutdown takes the components down.  app.trace keeps
\* the calls Shutdown makes, in the order it makes them.
AppEv(c, n, e) == [call |-> c, name |-> n, err |-> e]

\* Variant of ShutdownPrefix that stops the transport before it cancels
ShutdownPrefixMut(watcher, tErr) ==
    (IF watcher = "none" THEN <<>> ELSE <<AppEv("configWatcher.Stop", EmptyName, watcher)>>)
    \o <<AppEv("transport.Stop", EmptyName, tErr), AppEv("cancel", EmptyName, "ok")>>

\* Shutdown: a.cancel(), configWatcher.Stop() when there is a watcher, transport.Stop()
ShutdownPrefix(watcher, tErr) ==
    <<AppEv("cancel", EmptyName, "ok")>>
    \o (IF watcher = "none" THEN <<>> ELSE <<AppEv("configWatcher.Stop", EmptyName, watcher)>>)
    \o <<AppEv("transport.Stop", EmptyName, tErr)>>

\* Shutdown: "for name := range pluginStatus { UnloadPlugin(name) }"
RECURSIVE UnloadEach(_, _, _, _)
UnloadEach(acc, order, cleanupOks, shutOks) ==
    IF order = <<>> THEN acc
    ELSE LET n == Head(order)
             u == UnloadPluginOp(acc.st, n, cleanupOks[n], shutOks[n])
         IN  UnloadEach([st |-> u, calls |-> Append(acc.calls, AppEv("UnloadPlugin", n, u.err))],
                        Tail(order), cleanupOks, shutOks)

\* Shutdown: mcpServer.Stop(), which shuts the registry down and returns nil
ServerStop(acc, order, oks) ==
    [st |-> RegistryShutdownOp(acc.st, order, oks),
     calls |-> Append(acc.calls, AppEv("registry.Shutdown", EmptyName, "ok"))]

\* the component calls of a trace that returned an error
ShutdownErrors(calls) == {i \in DOMAIN calls : calls[i].err # "ok"}

\* App.Run(): transport.Start(a.ctx) has returned nil
AppRun ==
    /\ app.phase = "new"
    /\ mu = "free" /\ ~running /\ cycle < MaxStarts
    /\ cycle' = cycle + 1
    /\ srv' = [srv EXCEPT ![cycle + 1] = [pc |-> "spawned", why |-> "none", obj |-> NoCycle]]
    /\ running' = TRUE
    /\ lastCall' = CallOf("Start", "ok", TRUE)
    /\ app' = [app EXCEPT !.phase = "running"]
    /\ UNCHANGED <<stoppedCycles, ctxCancelled, mu, kind>>
    /\ UNCHANGED <<disk, pluginName, discovered, pluginPaths, plugins, loaded, tools, shutCount,
                   instLoaded, last, discVars, toolsLock, pc, call, result, readers, initCalled,
                   initialized, returned, facVars, srvVars, scanVars, muVars>>

\* App.Shutdown(), whole: the root cancel, the watcher, the transport, the
\* unload of every name ListPlugins returns, the server with the registry
AppShutdown ==
    /\ app.phase # "down"
    /\ mu = "free"
    /\ \E watcher \in {"none", "ok", "fail"} :
       \E tErr \in (IF HttpBased /\ ~StopIsNoop THEN {"ok", "deadline"} ELSE {"ok"}) :
       \E order \in Orders(DOMAIN ListPlugins) :
       \E cleanupOks, shutOks \in {f \in [Names -> BOOLEAN] : \A n \in Names \ loaded : f[n]} :
       \E un \in {UnloadEach([st |-> Cur, calls |-> ShutdownPrefix(watcher, tErr)],
                             order, cleanupOks, shutOks)} :
       \E order2 \in Orders({k \in ToolNames : un.st.tools[k] # NoTool}) :
       \E oks \in {f \in [ToolNames -> BOOLEAN] :
                      \A k \in ToolNames : un.st.tools[k] = NoTool => f[k]} :
       \E fin \in {ServerStop(un, order2, oks)} :
          /\ \A m \in Names : fin.st.shutCount[m] <= MaxShutdowns
          /\ loaded' = fin.st.loaded
          /\ tools' = fin.st.tools
          /\ shutCount' = fin.st.shutCount
          /\ instLoaded' = fin.st.instLoaded
          /\ last' = [op |-> "App.Shutdown", name |-> EmptyName, wasLoaded |-> FALSE,
                      err |-> IF ShutdownErrors(fin.calls) = {} THEN "ok" ELSE "errors",
                      events |-> fin.st.events, attempted |-> fin.st.attempted,
                      errors |-> fin.st.errors]
          /\ app' = [phase |-> "down", trace |-> fin.calls, wasLoaded |-> loaded,
                     err |-> IF ShutdownErrors(fin.calls) = {} THEN "ok"
                             ELSE "shutdown had errors"]
          /\ lastCall' = CallOf("Stop", tErr, FALSE)
    /\ ctxCancelled' = TRUE
    /\ running' = FALSE
    /\ stoppedCycles' = IF StopIsNoop THEN stoppedCycles ELSE stoppedCycles \cup {cycle}
    /\ \E d \in {StopPeriodicDiscoveryOp(CurDiscovery)} :
         /\ discoveryRunning' = d.running
         /\ stopDiscovery' = d.stop
         /\ closedChans' = d.closed
    /\ UNCHANGED <<discoveryEnabled, loops, cycle, srv, mu, kind>>
    /\ UNCHANGED <<disk, pluginName, discovered, pluginPaths, plugins, toolsLock, pc, call,
                   result, readers, initCalled, initialized, returned, facVars, srvVars,
                   scanVars, muVars>>

InitApp ==
    /\ disk = DefaultDisk
    /\ pluginName = [n \in Names |-> n]
    /\ InitPluginManager
    /\ InitIdle
    /\ InitRegIdle
    /\ discoveryEnabled = FALSE
    /\ InitDiscovery
    /\ kind \in AdapterKinds
    /\ InitAdapter

\* initialize (discovery and the loads of LoadAllPlugins, one by one), Run, Shutdown
NextApp ==
    \/ app.phase = "new" /\ DiscoverPlugins
    \/ app.phase = "new" /\ \E n \in Names : LoadPlugin(n)
    \/ AppRun
    \/ AppShutdown

SpecApp == InitApp /\ [][NextApp]_vars

\* ------------------------------------------ plugin manager, concurrent callers
\* The calls goroutines make on one PluginManager
ManagerCalls ==
    [op : {"LoadPlugin", "UnloadPlugin", "ReloadPlugin"}, name : Names]
    \cup [op : {"LoadAllPlugins", "DiscoverPlugins"}, name : {EmptyName}]

OpIndex(op) ==
    CASE op = "DiscoverPlugins" -> 0
      [] op = "LoadAllPlugins" -> 1
      [] op = "LoadPlugin" -> 2
      [] op = "UnloadPlugin" -> 3
      [] op = "ReloadPlugin" -> 4

\* The goroutines are interchangeable: the calls are handed out in one order
CallIndex(k) == OpIndex(k.op) * (MaxPlugins + 1) + k.name

\* Where a call begins: ReloadPlugin at its pm.mu.RLock(), LoadAllPlugins at its
\* range statement, the others at their pm.mu.Lock()
Entry(k) ==
    [NoManagerCall EXCEPT
        !.op = k.op, !.name = k.name,
        !.cur = k.op,
        !.pc = CASE k.op = "ReloadPlugin" -> "rlock"
                 [] k.op = "LoadAllPlugins" -> "range"
                 [] OTHER -> "lock"]

\* Variant of MuLockFree: a mutex that never blocks
MuLockFreeMut == TRUE

\* pm.mu.Lock() returns only while no one holds pm.mu, for writing or for reading
MuLockFree == pmMu.owner = NoOwner /\ pmMu.readers = {}

\* What the steps of a manager call leave alone
MuUnchanged ==
    UNCHANGED <<disk, pluginName, plugins, last, toolsLock, pc, call, result, readers,
                initCalled, initialized, returned, discVars, tVars, facVars, srvVars,
                scanVars, appVars>>

MuKeep == UNCHANGED <<loaded, tools, shutCount, instLoaded, inst>>

MuApply(s) ==
    /\ loaded' = s.loaded
    /\ tools' = s.tools
    /\ shutCount' = s.shutCount
    /\ instLoaded' = s.instLoaded

\* A ReloadPlugin(n) call that has made its check and has not returned
ReloadUnderWay(r, n) ==
    /\ mcall[r].op = "ReloadPlugin" /\ mcall[r].name = n
    /\ mcall[r].pc \in {"lock", "load", "unregister", "shutdown", "unlock"}

\* The calls of the goroutines after c's step took it to x; took tells whether a
\* LoadPlugin / UnloadPlugin call of c's changed the manager's or the registry's
\* state for mcall[c].name, which every ReloadPlugin under way for that name notes
Moved(c, x, took) ==
    [r \in ManagerCallers |->
        IF r = c THEN x
        ELSE IF took /\ mcall[c].op # "ReloadPlugin" /\ ReloadUnderWay(r, mcall[c].name)
        THEN [mcall[r] EXCEPT !.crossed = TRUE]
        ELSE mcall[r]]

\* pm.mu.Lock() of LoadPlugin, UnloadPlugin and DiscoverPlugins
MuLock(c) ==
    /\ ~fatal /\ mcall[c].pc = "lock" /\ MuLockFree
    /\ pmMu' = [pmMu EXCEPT !.owner = c]
    /\ mcall' = [mcall EXCEPT ![c].pc = CASE mcall[c].cur = "LoadPlugin" -> "load"
                                          [] mcall[c].cur = "UnloadPlugin" -> "unregister"
                                          [] mcall[c].cur = "DiscoverPlugins" -> "scan"]
    /\ UNCHANGED <<discovered, pluginPaths, fatal>> /\ MuKeep /\ MuUnchanged

\* ReloadPlugin: pm.mu.RLock()
MuRLock(c) ==
    /\ ~fatal /\ mcall[c].pc = "rlock" /\ pmMu.owner = NoOwner
    /\ pmMu' = [pmMu EXCEPT !.readers = @ \cup {c}]
    /\ mcall' = [mcall EXCEPT ![c].pc = "check"]
    /\ UNCHANGED <<discovered, pluginPaths, fatal>> /\ MuKeep /\ MuUnchanged

\* ReloadPlugin: "_, isLoaded := pm.plugins[name]", pm.mu.RUnlock(), and the call
\* it goes on to: UnloadPlugin if isLoaded, else LoadPlugin
MuReloadCheck(c) ==
    /\ ~fatal /\ mcall[c].pc = "check"
    /\ pmMu' = [pmMu EXCEPT !.readers = @ \ {c}]
    /\ mcall' = [mcall EXCEPT ![c].pc = "lock",
                              ![c].cur = IF ReloadIsLoaded(Cur, mcall[c].name)
                                         THEN "UnloadPlugin" ELSE "LoadPlugin"]
    /\ UNCHANGED <<discovered, pluginPaths, fatal>> /\ MuKeep /\ MuUnchanged

\* The body of LoadPlugin, made while pm.mu is held: the checks, plugin.Open,
\* Initialize(), RegisterTool and "pm.loaded[name] = adapter"
MuLoad(c) ==
    /\ ~fatal /\ mcall[c].pc = "load"
    /\ \E oc \in OutcomesFor(loaded, mcall[c].name) :
         LET n == mcall[c].name
             s == LoadPluginOp(Cur, n, oc)
         IN  /\ MuApply(s)
             /\ inst' = IF s.err = "ok"
                        THEN [gen |-> [inst.gen EXCEPT ![n] = @ + 1],
                              vis |-> [inst.vis EXCEPT ![n] = inst.gen[n] + 1]]
                        ELSE inst
             /\ mcall' = Moved(c, [mcall[c] EXCEPT !.pc = "unlock", !.err = s.err],
                               s.err = "ok")
    /\ UNCHANGED <<discovered, pluginPaths, pmMu, fatal>> /\ MuUnchanged

\* UnloadPlugin: the pm.loaded check and pm.registry.UnregisterTool(name), which
\* calls Cleanup() on the adapter and deletes the entry
MuUnregister(c) ==
    /\ ~fatal /\ mcall[c].pc = "unregister"
    /\ LET n == mcall[c].name IN
       IF NotLoaded(loaded, n)
       THEN /\ mcall' = [mcall EXCEPT ![c].pc = "unlock", ![c].err = "not_loaded"]
            /\ MuKeep
       ELSE \E cleanupOk \in BOOLEAN :
              LET s == UnloadUnregister(Cur, n, cleanupOk) IN
              /\ MuApply(s)
              /\ inst' = [inst EXCEPT !.vis[n] = IF s.tools[pluginName[n]] = n THEN @ ELSE 0]
              /\ mcall' = Moved(c, [mcall[c] EXCEPT !.pc = "shutdown", !.gen = inst.gen[n]],
                                s.tools # tools)
    /\ UNCHANGED <<discovered, pluginPaths, pmMu, fatal>> /\ MuUnchanged

\* UnloadPlugin: loadedPlugin.plugin.Shutdown() and "delete(pm.loaded, name)"
MuShutdown(c) ==
    /\ ~fatal /\ mcall[c].pc = "shutdown"
    /\ \E shutOk \in BOOLEAN :
         LET s == UnloadShutdown(Cur, mcall[c].name, shutOk) IN
         /\ MuApply(s)
         /\ mcall' = Moved(c, [mcall[c] EXCEPT !.pc = "unlock", !.err = s.err],
                           s.loaded # loaded)
    /\ UNCHANGED <<discovered, pluginPaths, pmMu, inst, fatal>> /\ MuUnchanged

\* DiscoverPlugins: ReadDir, which may fail, and the scan of the entries with
\* its writes to pm.pluginPaths and pm.discovered
MuScan(c) ==
    /\ ~fatal /\ mcall[c].pc = "scan"
    /\ \E fsOk \in BOOLEAN :
         LET dp == IF fsOk THEN ScanFrom([paths |-> pluginPaths, disc |-> discovered], 1)
                   ELSE [paths |-> pluginPaths, disc |-> discovered]
         IN  /\ pluginPaths' = dp.paths
             /\ discovered' = dp.disc
             /\ mcall' = [mcall EXCEPT ![c].pc = "unlock",
                                       ![c].err = IF fsOk THEN "ok" ELSE "readdir"]
    /\ UNCHANGED <<pmMu, fatal>> /\ MuKeep /\ MuUnchanged

\* Where a goroutine goes on when LoadPlugin / UnloadPlugin returned: ReloadPlugin
\* returns the error of its UnloadPlugin or goes on to LoadPlugin, LoadAllPlugins
\* notes the error and goes back to its range statement
AfterReturn(x) ==
    IF x.op = "ReloadPlugin" /\ x.cur = "UnloadPlugin"
    THEN IF x.err # "ok" THEN [x EXCEPT !.pc = "done", !.err = "unload"]
         ELSE [x EXCEPT !.pc = "lock", !.cur = "LoadPlugin"]
    ELSE IF x.op = "LoadAllPlugins"
    THEN [x EXCEPT !.pc = "range", !.cur = "LoadAllPlugins",
                   !.errors = IF x.err # "ok" THEN @ \cup {x.name} ELSE @]
    ELSE [x EXCEPT !.pc = "done"]

\* the deferred pm.mu.Unlock()
MuUnlock(c) ==
    /\ ~fatal /\ mcall[c].pc = "unlock"
    /\ pmMu' = [pmMu EXCEPT !.owner = NoOwner]
    /\ mcall' = [mcall EXCEPT ![c] = AfterReturn(mcall[c])]
    /\ UNCHANGED <<discovered, pluginPaths, fatal>> /\ MuKeep /\ MuUnchanged

\* A goroutine is between pm.mu.Lock() and the end of the scan of DiscoverPlugins
Writing(b) == mcall[b].pc = "scan"

\* LoadAllPlugins: one evaluation of "for name := range pm.discovered", made
\* without pm.mu. It yields a key not yet produced and goes on to LoadPlugin, or
\* ends the loop; while another goroutine writes the map the runtime may also
\* throw "concurrent map iteration and map write".
MuRange(c) ==
    /\ ~fatal /\ mcall[c].pc = "range"
    /\ \/ /\ \E n \in discovered \ mcall[c].visited :
               mcall' = [mcall EXCEPT ![c].visited = @ \cup {n}, ![c].name = n,
                                      ![c].cur = "LoadPlugin", ![c].pc = "lock"]
          /\ UNCHANGED fatal
       \/ /\ discovered \subseteq mcall[c].visited
          /\ mcall' = [mcall EXCEPT ![c].pc = "done", ![c].name = EmptyName,
                                    ![c].err = IF mcall[c].errors # {} THEN "some_failed"
                                               ELSE "ok"]
          /\ UNCHANGED fatal
       \/ /\ \E b \in ManagerCallers \ {c} : Writing(b)
          /\ fatal' = TRUE
          /\ UNCHANGED mcall
    /\ UNCHANGED <<discovered, pluginPaths, pmMu>> /\ MuKeep /\ MuUnchanged

\* A manager with nothing loaded
Fresh ==
    [loaded |-> {}, tools |-> [k \in ToolNames |-> NoTool], shutCount |-> [n \in Names |-> 0],
     instLoaded |-> [n \in Names |-> FALSE], events |-> <<>>, err |-> "ok",
     attempted |-> {}, errors |-> {}]

\* A manager after DiscoverPlugins and the successful LoadPlugin of the first k
\* plugins found, and goroutines that each make one call on it; LoadAllPlugins
\* is the call of one goroutine, the one that initializes the application
InitMu ==
    /\ disk = DefaultDisk
    /\ pluginName = [n \in Names |-> n]
    /\ plugins = {}
    /\ \E dp \in {ScanFrom([paths |-> [n \in Names |-> NoDir], disc |-> {}], 1)} :
         /\ discovered = dp.disc
         /\ pluginPaths = dp.paths
    /\ \E ld \in {1..k : k \in 0..MaxPlugins} :
         \E s \in {LoadAllLoop(Fresh, CHOOSE q \in Orders(ld) : TRUE, [n \in Names |-> "ok"])} :
           /\ loaded = s.loaded
           /\ tools = s.tools
           /\ shutCount = s.shutCount
           /\ instLoaded = s.instLoaded
           /\ inst = [gen |-> [n \in Names |-> IF n \in s.loaded THEN 1 ELSE 0],
                      vis |-> [n \in Names |-> IF s.tools[n] = n THEN 1 ELSE 0]]
    /\ last = NoLast
    /\ pmMu = NoHolder
    /\ fatal = FALSE
    /\ mcall \in {f \in [ManagerCallers -> {Entry(k) : k \in ManagerCalls}] :
                    /\ Cardinality({c \in ManagerCallers : f[c].op = "LoadAllPlugins"}) <= 1
                    /\ \A a, b \in ManagerCallers :
                         a < b => CallIndex(f[a]) <= CallIndex(f[b])}
    /\ facReq = NoRequest
    /\ facOut = NoCreated
    /\ hasMetrics = TRUE
    /\ InitServer
    /\ InitApplication
    /\ InitScanIdle
    /\ InitRegIdle
    /\ discoveryEnabled = FALSE
    /\ InitDiscovery
    /\ kind = "stdio"
    /\ InitAdapter

NextMu ==
    \E c \in ManagerCallers :
        \/ MuLock(c)
        \/ MuRLock(c)
        \/ MuReloadCheck(c)
        \/ MuLoad(c)
        \/ MuUnregister(c)
        \/ MuShutdown(c)
        \/ MuScan(c)
        \/ MuUnlock(c)
        \/ MuRange(c)

SpecMu == InitMu /\ [][NextMu]_vars

\* ------------------------------------------------------------------ claims
OkRegistrants(k) ==
    {c \in Callers : call[c].op = "RegisterTool" /\ call[c].name = k /\ result[c] = "ok"}

Registrants(k) == {c \in Callers : call[c].op = "RegisterTool" /\ call[c].name = k}

SomeoneUnregisters(k) == \E c \in Callers : call[c].op = "UnregisterTool" /\ call[c].name = k

\* C1: name uniqueness under concurrent registration.  For a name no caller
\* unregisters: a caller whose RegisterTool returned success holds the name's one
\* entry (no registration is overwritten), at most one caller succeeded, and once
\* N >= 2 callers registering that name with succeeding Initialize hooks have all
\* returned, exactly one returned success and the N-1 others the duplicate-name
\* error, whatever the interleaving.
C1_NameUniqueness ==
    \A k \in ContendedNames :
        ~SomeoneUnregisters(k) =>
            /\ \A c \in OkRegistrants(k) : tools[k] = c
            /\ Cardinality(OkRegistrants(k)) <= 1
            /\ ( /\ Cardinality(Registrants(k)) >= 2
                 /\ \A c \in Registrants(k) : call[c].initOk /\ pc[c] = "done" )
               => /\ Cardinality(OkRegistrants(k)) = 1
                  /\ \A c \in Registrants(k) \ OkRegistrants(k) : result[c] = "duplicate"

C1_Witness ==
    /\ \A c \in Callers : call[c] = [op |-> "RegisterTool", name |-> 1, initOk |-> TRUE,
                                      nilTool |-> FALSE]
    /\ \A c \in Callers : pc[c] = "done"
    /\ Cardinality(OkRegistrants(1)) = 1
    /\ Cardinality({c \in Callers : result[c] = "duplicate"}) = NumCallers - 1

\* C2: a plugin that was loaded and registered and has left the loaded set (its
\* name can be loaded again) has had its Shutdown hook invoked exactly once.
C2_ShutdownExactlyOnce ==
    \A n \in Names : (instLoaded[n] /\ n \notin loaded) => shutCount[n] = 1

\* C3: ReloadPlugin(name) on a loaded plugin calls UnloadPlugin and then
\* LoadPlugin; a failed unload returns an error without a load; when both
\* succeed it returns no error and the name is loaded and registered.
C3_ReloadUnloadsThenLoads ==
    (last.op = "ReloadPlugin" /\ last.wasLoaded) =>
        /\ HasEv(last.events, "UnloadPlugin", last.name)
        /\ \A i \in 1..Len(last.events) :
              (last.events[i].ev = "UnloadPlugin" /\ last.events[i].res # "ok")
                  => (last.err # "ok" /\ ~HasEv(last.events, "LoadPlugin", last.name))
        /\ ( /\ \E i \in 1..Len(last.events) :
                    last.events[i].ev = "UnloadPlugin" /\ last.events[i].res = "ok"
             /\ \E i \in 1..Len(last.events) :
                    last.events[i].ev = "LoadPlugin" /\ last.events[i].res = "ok" )
           => (last.err = "ok" /\ last.name \in loaded /\ tools[last.name] # NoTool)

OnlyReturns(evs) == Len(evs) = 1 /\ evs[1].ev \in {"LoadPlugin", "UnloadPlugin"}

\* C4: a LoadPlugin of a name that is not discovered or is already loaded
\* returns an error, calls no hook and nothing of the registry, and leaves the
\* discovered set, the loaded set, the plugin instances and the registry as
\* they were.
C4_LoadRefusedChangesNothing ==
    [][ (last'.op = "LoadPlugin" /\ (last'.name \notin discovered \/ last'.name \in loaded))
        => /\ last'.err \in {"not_found", "already_loaded"}
           /\ OnlyReturns(last'.events)
           /\ UNCHANGED <<discovered, pluginPaths, plugins, loaded, tools, shutCount, instLoaded>>
      ]_vars

C4_Witness ==
    /\ last.op = "LoadPlugin" /\ last.wasLoaded
    /\ last.err = "already_loaded" /\ last.name \in loaded

\* C5: an UnloadPlugin of a name that is not loaded returns an error, calls no
\* Shutdown or Cleanup hook, and leaves the loaded set and the registry as they
\* were.
C5_UnloadRefusedChangesNothing ==
    [][ (last'.op = "UnloadPlugin" /\ last'.name \notin loaded)
        => /\ last'.err = "not_loaded"
           /\ OnlyReturns(last'.events)
           /\ UNCHANGED <<loaded, tools, shutCount, instLoaded>>
      ]_vars

C5_Witness ==
    /\ last.op = "UnloadPlugin" /\ ~last.wasLoaded /\ last.err = "not_loaded"
    /\ \E k \in ToolNames : tools[k] # NoTool

RegisterFailedAt(evs, i) == evs[i].ev = "RegisterTool" /\ evs[i].res # "ok"

\* C6: when RegisterTool fails in LoadPlugin (after a successful Initialize), the
\* manager calls the plugin's Shutdown exactly once, after the failed
\* registration, and returns an error; the name is not recorded as loaded and
\* the registry is as it was before the call.
C6_RegisterFailureShutsDown ==
    [][ (last'.op = "LoadPlugin"
            /\ \E i \in 1..Len(last'.events) : RegisterFailedAt(last'.events, i))
        => /\ last'.err = "register"
           /\ CountEv(last'.events, "Shutdown", last'.name) = 1
           /\ CountEv(last'.events, "Cleanup", last'.name) = 0
           /\ \A i, j \in 1..Len(last'.events) :
                  (RegisterFailedAt(last'.events, i) /\ last'.events[j].ev = "Shutdown") => i < j
           /\ shutCount'[last'.name] = 1
           /\ last'.name \notin loaded'
           /\ ~instLoaded'[last'.name]
           /\ tools' = tools
      ]_vars

C6_Witness ==
    /\ last.op = "LoadPlugin" /\ last.err = "register"
    /\ \E i \in 1..Len(last.events) : RegisterFailedAt(last.events, i)
    /\ \E i \in 1..Len(last.events) : last.events[i].ev = "RegisterTool" /\ last.events[i].res = "duplicate"

InitializeFailed(evs) == \E i \in 1..Len(evs) : evs[i].ev = "Initialize" /\ evs[i].res = "fail"

\* C7: when Initialize fails in LoadPlugin, the load returns an error without
\* calling RegisterTool or Shutdown, the plugin instances and the registry are
\* as before, and the name is not loaded, so a later LoadPlugin of it is not
\* refused.
C7_InitFailureAborts ==
    [][ (last'.op = "LoadPlugin" /\ InitializeFailed(last'.events))
        => /\ last'.err = "init"
           /\ \A i \in 1..Len(last'.events) :
                  last'.events[i].ev \notin {"RegisterTool", "Shutdown", "Cleanup"}
           /\ UNCHANGED <<loaded, tools, shutCount, instLoaded>>
           /\ last'.name \notin loaded'
           /\ LoadRefused(loaded', last'.name) = "ok"
      ]_vars

C7_Witness == last.op = "LoadPlugin" /\ last.err = "init" /\ InitializeFailed(last.events)

ShutdownFailed(evs) == \E i \in 1..Len(evs) : evs[i].ev = "Shutdown" /\ evs[i].res = "fail"

\* C8, as stated: after UnloadPlugin(name) on a loaded name the name is no
\* longer loaded, whether Shutdown succeeded or failed, and a failed Shutdown
\* is returned as an error.
C8_RemovedRegardless ==
    (last.op = "UnloadPlugin" /\ last.wasLoaded) =>
        /\ last.name \notin loaded
        /\ ShutdownFailed(last.events) => last.err # "ok"

\* C8, amended: UnloadPlugin(name) on a loaded name removes it from the loaded
\* set exactly when the manager's Shutdown call succeeds; when that call fails
\* the error is returned and the name is still loaded, its registry entry gone.
C8_RemovedOnlyOnSuccess ==
    (last.op = "UnloadPlugin" /\ last.wasLoaded) =>
        /\ CountEv(last.events, "Shutdown", last.name) = 1
        /\ ShutdownFailed(last.events)
              => (last.err = "shutdown" /\ last.name \in loaded /\ tools[last.name] = NoTool)
        /\ ~ShutdownFailed(last.events) => (last.err = "ok" /\ last.name \notin loaded)

C8_Witness ==
    /\ last.op = "UnloadPlugin" /\ last.wasLoaded
    /\ ShutdownFailed(last.events) /\ last.err = "shutdown" /\ last.name \in loaded

\* C9: UnloadPlugin(name) on a loaded name calls UnregisterTool(name) exactly
\* once and its own Shutdown call comes after UnregisterTool has returned, also
\* when UnregisterTool returned not-found; when UnloadPlugin has returned,
\* GetTool(name) fails with not-found.
C9_UnregisterBeforeShutdown ==
    (last.op = "UnloadPlugin" /\ last.wasLoaded) =>
        /\ CountEv(last.events, "UnregisterTool", last.name) = 1
        /\ CountEv(last.events, "Shutdown", last.name) = 1
        /\ \A i, j \in 1..Len(last.events) :
              (last.events[i].ev = "UnregisterTool" /\ last.events[j].ev = "Shutdown") => i < j
        /\ GetTool(tools, last.name).err = "not_found"

C9_Witness ==
    /\ last.op = "UnloadPlugin" /\ last.wasLoaded /\ last.err = "ok"
    /\ \E i \in 1..Len(last.events) :
          last.events[i].ev = "UnregisterTool" /\ last.events[i].res = "not_found"
    /\ \E i \in 1..Len(last.events) : last.events[i].ev = "Shutdown"

\* C10: LoadAllPlugins attempts every discovered name; no plugin loaded before
\* or during the call is unloaded by it; the names its error lists are exactly
\* the discovered names the call did not newly load; and it returns an error
\* exactly when that list is not empty.
C10_LoadAllBestEffort ==
    [][ last'.op = "LoadAllPlugins"
        => /\ last'.attempted = discovered
           /\ loaded \subseteq loaded'
           /\ last'.errors = discovered \ (loaded' \ loaded)
           /\ (last'.err # "ok") <=> (last'.errors # {})
      ]_vars

C10_Witness ==
    /\ last.op = "LoadAllPlugins" /\ last.err = "some_failed"
    /\ \E n \in last.errors : n \notin loaded
    /\ \E n \in last.attempted \ last.errors : n \in loaded

NeverInserted(c) == \A k \in ToolNames : tools[k] # c

\* C11: RegisterTool inserts a tool only after its Initialize hook has returned
\* success.  A registration of a nil tool, of a tool with an empty name or of a
\* name already present fails without an Initialize call and without an insert;
\* Initialize is reached only while the name is absent; a registration whose
\* Initialize fails fails without an insert; every catalogue entry, and every
\* tool a GetTool or ListTools call returned, is a tool whose Initialize has
\* returned success.
C11_InsertOnlyInitialized ==
    /\ \A k \in ToolNames : tools[k] # NoTool => tools[k] \in initialized
    /\ \A c \in Callers : \A i \in 1..Len(returned[c]) : returned[c][i] \in initialized
    /\ \A c \in Callers : call[c].op = "RegisterTool" =>
          /\ (call[c].nilTool \/ call[c].name = EmptyName) =>
                /\ c \notin initCalled /\ NeverInserted(c)
                /\ pc[c] = "done" =>
                      result[c] = (IF call[c].nilTool THEN "nil_tool" ELSE "empty_name")
          /\ pc[c] \in {"init", "insert"} => ~Exists(call[c].name)
          /\ result[c] = "duplicate" => (c \notin initCalled /\ NeverInserted(c))
          /\ result[c] = "init" => (c \in initCalled \ initialized /\ NeverInserted(c))
          /\ ~call[c].initOk =>
                (NeverInserted(c) /\ (pc[c] = "done" => result[c] \in {"duplicate", "init"}))
          /\ result[c] = "ok" => c \in initialized

C11_Witness ==
    /\ \A c \in Callers : pc[c] = "done"
    /\ \E c \in Callers : result[c] = "init"
    /\ \E c \in Callers : result[c] = "duplicate"
    /\ \E k \in ContendedNames : tools[k] # NoTool

NameOf(t) == call[t].name

\* C14: ListTools returns an independent snapshot.  Under every interleaving
\* with RegisterTool and UnregisterTool calls the sequence it returned holds only
\* tools that are non-nil, initialized and were inserted, holds no name twice,
\* and is not changed by any later step of any caller.
C14_ListSnapshot ==
    [][ \A c \in Callers : call[c].op = "ListTools" =>
          /\ \A i \in 1..Len(returned'[c]) :
                /\ returned'[c][i] # NoTool
                /\ returned'[c][i] \in initialized'
                /\ result'[returned'[c][i]] = "ok"
          /\ \A i, j \in 1..Len(returned'[c]) :
                i # j => NameOf(returned'[c][i]) # NameOf(returned'[c][j])
          /\ pc[c] \in {"runlock", "done"} => returned'[c] = returned[c]
      ]_vars

C14_Witness ==
    \E c \in Callers :
        /\ call[c].op = "ListTools" /\ pc[c] = "done"
        /\ Len(returned[c]) >= 1
        /\ tools[NameOf(returned[c][1])] # returned[c][1]
        /\ \E d \in Callers : call[d].op = "UnregisterTool" /\ result[d] = "ok"

NoCleanup(evs) == \A i \in 1..Len(evs) : evs[i].ev # "Cleanup"

\* C12: UnregisterTool(name) of an absent name fails with not-found, calls no
\* hook and changes nothing; of a present name it calls that tool's Cleanup
\* exactly once, before it returns, removes the entry and returns success,
\* also when Cleanup returned an error.
C12_UnregisterCleansThenRemoves ==
    [][ last'.op = "UnregisterTool" =>
          IF tools[last'.name] = NoTool
          THEN /\ last'.err = "not_found"
               /\ NoCleanup(last'.events)
               /\ UNCHANGED <<tools, shutCount, loaded, instLoaded>>
          ELSE /\ last'.err = "ok"
               /\ Len(last'.events) = 2
               /\ last'.events[1].ev = "Cleanup" /\ last'.events[1].p = tools[last'.name]
               /\ last'.events[2] = Ev("UnregisterTool", last'.name, "ok")
               /\ shutCount' = [shutCount EXCEPT ![tools[last'.name]] = @ + 1]
               /\ tools' = [tools EXCEPT ![last'.name] = NoTool]
      ]_vars

C12_Witness ==
    /\ last.op = "UnregisterTool" /\ last.err = "ok"
    /\ Len(last.events) = 2 /\ last.events[1].ev = "Cleanup" /\ last.events[1].res = "fail"
    /\ tools[last.name] = NoTool
    /\ \E k \in ToolNames : tools[k] # NoTool

\* Registry.Shutdown cleaned every entry once and left the catalogue empty
ShutdownCleanedAll ==
    /\ last.err = "ok"
    /\ \A t \in Names :
          CountEv(last.events, "Cleanup", t) = (IF t \in last.attempted THEN 1 ELSE 0)
    /\ \A k \in ToolNames : GetTool(tools, k).err = "not_found"
    /\ \A order \in Orders({k \in ToolNames : tools[k] # NoTool}) : Snapshot(tools, order) = <<>>

\* Registry.Shutdown left no discovery running: the flag is down and no
\* discovery loop waits for ticks on a stop channel that is still open
DiscoveryStopped ==
    /\ ~discoveryRunning
    /\ \A l \in 1..MaxLoops : loops[l].pc = "select" => loops[l].ch \in closedChans

\* C13: when Registry.Shutdown has returned (and nothing has been called
\* since), periodic discovery is stopped, Cleanup was invoked exactly once on
\* every entry present at the call, whatever the Cleanup of the others
\* returned, no error was returned, and the catalogue is empty: every GetTool
\* fails and ListTools is empty.
C13_ShutdownStopsAndCleans ==
    last.op = "Shutdown" => (DiscoveryStopped /\ ShutdownCleanedAll)

\* The part of C13 about the entries alone
C13_EntriesCleaned == last.op = "Shutdown" => ShutdownCleanedAll

\* C15: a Start() that directly follows a Start() that returned success, while
\* the serving loop that Start launched has not ended, returns the
\* already-running error and launches no serving loop.
C15_SecondStartRefused ==
    (lastCall.op = "Start" /\ lastCall.afterStart /\ lastCall.prevAlive) =>
        (lastCall.err = "already_running" /\ ~lastCall.launched)

\* C16: Stop() on an adapter that is not running (never started, stopped, or
\* ended by itself) returns no error and changes nothing of the adapter, and
\* IsHealthy() is false before and after it; after any Stop() has returned the
\* adapter is not running, so that a second Stop() in a row is such a no-op.
C16_StopOnStoppedIsNoop ==
    [][ /\ ((StdioStop \/ HttpStopBegin) /\ ~running) =>
              /\ lastCall'.op = "Stop" /\ lastCall'.err = "ok"
              /\ UNCHANGED <<running, cycle, stoppedCycles, ctxCancelled, srv, mu>>
              /\ ~IsHealthy /\ ~IsHealthy'
        /\ (lastCall'.op = "Stop" /\ lastCall' # lastCall) => ~running'
      ]_vars

C16_Witness ==
    /\ lastCall.op = "Stop" /\ lastCall.err = "ok"
    /\ cycle # NoCycle /\ cycle \notin stoppedCycles /\ ~running

\* C17: whenever IsHealthy() is true, the serving loop of the adapter's current
\* cycle is running: it has been entered (the listener is bound) and it has not
\* returned.
C17_HealthyOnlyWhileServing ==
    IsHealthy => (cycle # NoCycle /\ srv[cycle].pc = "serving")

EndedByItself(g) == srv[g].pc = "returned" /\ srv[g].why \in {"self", "bind"}

\* C18: when a serving loop has returned on its own, IsHealthy() becomes false
\* without any call made on the adapter; and IsHealthy() turns from false to
\* true only by a Start() that returns success.
C18_HealthFollowsLoopExit ==
    /\ (\E g \in 1..MaxStarts : EndedByItself(g)) ~> ~IsHealthy
    /\ [][ (~IsHealthy /\ IsHealthy') =>
              (lastCall'.op = "Start" /\ lastCall'.err = "ok" /\ cycle' = cycle + 1) ]_vars

C18_Witness ==
    \E g \in 1..MaxStarts :
        /\ srv[g].pc = "done" /\ ~HttpBased
        /\ g = cycle /\ g \notin stoppedCycles /\ ~ctxCancelled
        /\ lastCall.op = "Start" /\ lastCall.err = "ok" /\ lastCall.cycle = g
        /\ ~IsHealthy

\* C19: when the Start() that returned last launched a serving goroutine whose
\* bind failed, that Start() returned the bind error and IsHealthy() is false.
C19_BindErrorReturned ==
    (lastCall.op = "Start" /\ lastCall.cycle # NoCycle /\ srv[lastCall.cycle].why = "bind") =>
        (lastCall.err = "bind" /\ ~IsHealthy)

\* C20: a Stop() that waits in Shutdown always returns (when the connections
\* have not drained, with the error of the expired context), and when a Stop()
\* has returned IsHealthy() is false.
C20_StopReturns ==
    /\ (mu = "draining") ~> (mu = "free" /\ lastCall.op = "Stop")
    /\ [](lastCall.op = "Stop" => (~IsHealthy /\ lastCall.err \in {"ok", "deadline"}))

C20_Witness ==
    /\ lastCall.op = "Stop" /\ lastCall.err = "deadline"
    /\ HttpBased /\ mu = "free" /\ ~running

\* the option under key k is missing or has none of the given types
Unusable(k, types) == facReq.options[k].type \notin types

\* C21: the factory maps "stdio", "sse" and "http" to an adapter whose Name() is
\* that protocol and returns an error and no adapter for every other protocol
\* name; an option of the bag that is missing or does not have the type of its
\* field (host: string, port: a number, cors_enabled: bool, timeout: a duration
\* string) is replaced by the default: localhost, 26841 (sse) / 26842 (http),
\* CORS enabled, 30s.  (A factory without its MCP server constructs nothing.)
C21_FactoryMapsAndDefaults ==
    (facOut.op # "none" /\ (facReq.via = "factory" => facReq.serverSet)) =>
        /\ facReq.protocol \in {"stdio", "sse", "http"} =>
              /\ facOut.err = "ok"
              /\ facOut.adapter # NoAdapter
              /\ Name(facOut.adapter) = facReq.protocol
        /\ facReq.protocol \notin {"stdio", "sse", "http"} =>
              /\ facOut.err # "ok"
              /\ facOut.adapter = NoAdapter
        /\ facReq.protocol \in {"sse", "http"} =>
              /\ Unusable("host", {"string"}) => facOut.adapter.host = "localhost"
              /\ Unusable("port", {"int", "float64"}) =>
                    facOut.adapter.port = IF facReq.protocol = "sse" THEN 26841 ELSE 26842
        /\ (facReq.protocol = "sse" /\ Unusable("cors_enabled", {"bool"})) =>
              facOut.adapter.cors = TRUE
        /\ (facReq.protocol = "http" /\ Unusable("timeout", {"string"})) =>
              facOut.adapter.timeout = 30

\* an sse adapter made from a bag whose host and port have the wrong type and
\* whose cors_enabled is missing
C21_Witness ==
    /\ facOut.op = "CreateTransportFromConfig"
    /\ facReq.protocol = "sse"
    /\ facReq.options["host"].type = "int"
    /\ facReq.options["port"].type = "string"
    /\ facReq.options["cors_enabled"].type = "missing"
    /\ facOut.adapter = [type |-> "SSEAdapter", host |-> "localhost", port |-> 26841,
                         cors |-> TRUE, timeout |-> 0]

\* the handler of invocation c returns in this step
Responds(c) == inv[c].pc = "recorded" /\ inv'[c].pc = "done"

\* C22: a failure of the tool's Execute never escapes the dispatch handler.
\* Whenever a handler returns, it returns no Go error; when Execute failed the
\* result is marked as an error and carries a text message; and the return
\* leaves the engine's handlers, the registry and every other invocation as
\* they were, so the other tools stay callable.
C22_ExecuteFailureContained ==
    [][\A c \in Invokers :
          Responds(c) =>
              /\ inv'[c].result.err = "nil"
              /\ inv[c].outcome = "error" =>
                    (inv'[c].result.isError /\ inv'[c].result.text # "")
              /\ inv[c].outcome = "result" => ~inv'[c].result.isError
              /\ engine' = engine
              /\ tools' = tools
              /\ \A d \in Invokers \ {c} : inv'[d] = inv[d]]_vars

\* one call has failed in Execute and another call has returned a result
C22_Witness ==
    \E c, d \in Invokers :
        /\ inv[c].pc = "done" /\ inv[c].outcome = "error" /\ inv[c].result.isError
        /\ inv[d].pc = "done" /\ inv[d].outcome = "result" /\ ~inv[d].result.isError
        /\ inv[d].result.err = "nil"

\* the invocations that have recorded their metrics entry
Recorded == {c \in Invokers : inv[c].entries # <<>>}

\* C23: every handler invocation records exactly one metrics entry, after
\* Execute has returned, with the tool's name and an error flag that is true
\* exactly when Execute returned an error; the collector's counters equal the
\* number of invocations that have recorded, under every interleaving (no
\* update is lost).  The server has a collector.
C23_OneEntryPerInvocation ==
    hasMetrics =>
        /\ \A c \in Invokers :
              /\ Len(inv[c].entries) =
                     IF inv[c].tool # NoTool /\ inv[c].pc \in {"stored", "recorded", "done"}
                     THEN 1 ELSE 0
              /\ inv[c].entries # <<>> =>
                    /\ inv[c].outcome # "none"
                    /\ inv[c].entries[1] = [toolName |-> pluginName[inv[c].tool],
                                            isError |-> inv[c].outcome = "error"]
        /\ metrics.requestCount = Cardinality(Recorded)
        /\ metrics.errorCount = Cardinality({c \in Recorded : inv[c].outcome = "error"})
        /\ \A k \in Names :
              metrics.toolCallCount[k] = Cardinality({c \in Recorded : inv[c].toolName = k})

\* every invocation has run concurrently with the others to its end, one failed
C23_Witness ==
    /\ hasMetrics
    /\ \A c \in Invokers : inv[c].pc = "done" /\ Len(inv[c].entries) = 1
    /\ metrics.requestCount = MaxInvocations
    /\ metrics.errorCount = 1

\* C24: any time after Server.Start a tool is callable through the protocol
\* engine exactly when it is currently registered: the engine has a handler
\* under a name if and only if the registry has an entry under it, and the
\* handler runs the registered tool.
C24_CallableIffRegistered ==
    engine.started => \A k \in Names : engine.handlers[k] = tools[k]

\* C25: ListPlugins returns one status record per known plugin name, with
\* loaded = true exactly when the name is currently loaded and discovered =
\* true for every discovered name, after any sequence of operations.
C25_ListReflectsLoaded ==
    /\ DOMAIN ListPlugins = discovered \cup loaded
    /\ \A n \in DOMAIN ListPlugins :
          /\ ListPlugins[n].Loaded <=> n \in loaded
          /\ n \in discovered => ListPlugins[n].Discovered

\* a manifest with a non-empty name, version and entry_point
WellFormed(e) ==
    e.kind = "manifest" /\ e.Name # EmptyName /\ e.Version # "" /\ e.EntryPoint # NoFile

Scanned == last.op = "DiscoverPlugins" /\ last.err = "ok"

\* C26: after any DiscoverPlugins call the discovered records correspond
\* exactly to the plugin directories that hold a well-formed manifest: every
\* such directory is the directory of the record of its name, and every record
\* is the record of a directory that holds a well-formed manifest of that name.
C26_RecordsMatchDirectories ==
    Scanned =>
        /\ \A d \in ScanDirs :
              WellFormed(fs[d]) => (fs[d].Name \in discovered /\ pluginPaths[fs[d].Name] = d)
        /\ \A n \in discovered :
              /\ pluginPaths[n] \in ScanDirs
              /\ WellFormed(fs[pluginPaths[n]])
              /\ fs[pluginPaths[n]].Name = n

\* What holds of C26: a scan passes over the entries it cannot use and records
\* every name that a well-formed manifest declares
C26_ScanSkipsInvalid ==
    Scanned => \A d \in ScanDirs : WellFormed(fs[d]) => fs[d].Name \in discovered

\* the directories that declare the name n in a well-formed manifest
Declaring(n) == {d \in ScanDirs : WellFormed(fs[d]) /\ fs[d].Name = n}

\* the one of them that sorts last
Winner(n) == CHOOSE d \in Declaring(n) : \A e \in Declaring(n) : e <= d

\* C27: when directories declare the same manifest name a scan resolves to one
\* winner that the directory contents determine (the directory that sorts last):
\* after every scan the record of the name holds that directory and its
\* manifest, and at all times the recorded directory and the recorded manifest
\* of a name come from the same directory.
C27_DeterministicWinner ==
    /\ \A n \in discovered : metadata[n].from = pluginPaths[n]
    /\ Scanned =>
          \A n \in Names :
              Declaring(n) # {} =>
                  /\ n \in discovered
                  /\ pluginPaths[n] = Winner(n)
                  /\ metadata[n] = Record(fs[Winner(n)], Winner(n))

\* a scan of two directories that declare one name with different entry points
C27_Witness ==
    /\ Scanned
    /\ \E n \in Names :
          /\ Cardinality(Declaring(n)) >= 2
          /\ \E d \in Declaring(n) : fs[d].EntryPoint # fs[Winner(n)].EntryPoint
          /\ pluginPaths[n] = Winner(n)
          /\ metadata[n].from = Winner(n)

\* C28: LoadPlugin(name) opens the loadable unit at the manifest's entry_point
\* inside the plugin's directory.
C28_OpensEntryPoint ==
    (last.op = "LoadPlugin" /\ last.err \notin {"not_found", "already_loaded", "no_dir"}) =>
        OpenedPath(last.name) = [dir |-> pluginPaths[last.name],
                                 file |-> metadata[last.name].EntryPoint]

\* C29: every adapter serving loop honours cancellation: once the context
\* passed to Start(ctx) is cancelled, every serving loop of the adapter
\* eventually terminates and IsHealthy() becomes false, whether or not Stop()
\* is called.
C29_CancellationStopsServing ==
    /\ ctxCancelled ~> ~IsHealthy
    /\ ctxCancelled ~> (\A g \in 1..MaxStarts : ~Alive(g))

\* What holds of C29: the STDIO adapter's loop ends and its health turns false
C29_StdioHonoursCancel ==
    /\ (ctxCancelled /\ kind = "stdio") ~> ~IsHealthy
    /\ (ctxCancelled /\ kind = "stdio") ~> (\A g \in 1..MaxStarts : ~Alive(g))

\* the positions of the calls c in the trace of Shutdown
Idx(c) == {i \in DOMAIN app.trace : app.trace[i].call = c}

\* C30: App.Shutdown issues the root cancellation exactly once and before every
\* component-level stop: the transport's Stop, every plugin unload and the
\* registry Shutdown come after the cancel, and the transport is stopped before
\* any plugin is unloaded.
C30_CancelFirstThenStops ==
    app.phase = "down" =>
        /\ Cardinality(Idx("cancel")) = 1
        /\ ctxCancelled
        /\ \A i \in Idx("cancel") : \A j \in DOMAIN app.trace \ Idx("cancel") : i < j
        /\ Idx("transport.Stop") # {}
        /\ Idx("registry.Shutdown") # {}
        /\ \A i \in Idx("transport.Stop") : \A j \in Idx("UnloadPlugin") : i < j

\* a shutdown of a running application that unloaded two plugins, one with success
C30_Witness ==
    /\ app.phase = "down"
    /\ lastCall.op = "Stop" /\ stoppedCycles # {}
    /\ Cardinality(Idx("UnloadPlugin")) >= 2
    /\ \E i \in Idx("UnloadPlugin") : app.trace[i].err = "ok"

\* periodicDiscoveryLoop goroutines that have been launched and have not returned
AliveLoops == {l \in 1..MaxLoops : loops[l].pc \in {"top", "select"}}

\* C31: under any interleaving of StartPeriodicDiscovery and
\* StopPeriodicDiscovery (a Stop right after a Start and a later restart
\* included) at most one periodic-discovery loop is alive per registry.
C31_AtMostOneLoop == Cardinality(AliveLoops) <= 1

\* The second half of C31: a StartPeriodicDiscovery while discovery is running
\* returns the error and launches no loop
C31_StartWhileRunningRefused ==
    [][(discoveryRunning => \A l \in 1..MaxLoops : loops[l].pc = "none" => loops'[l].pc = "none")
       /\ (discoveryEnabled /\ discoveryRunning /\ last' # last
           /\ last'.op = "StartPeriodicDiscovery" => last'.err = "already_running")]_vars

\* every loop goroutine is scheduled: a loop at the top of its for statement
\* enters the select, a select whose stop channel is closed returns
FairLoops == \A l \in 1..MaxLoops : WF_vars(LoopSelect(l) \/ LoopExit(l))

SpecDiscFair == InitDisc /\ [][NextDisc]_vars /\ FairLoops

\* C32: after StopPeriodicDiscovery has returned, the discovery loop that was
\* running eventually terminates.
C32_StoppedLoopTerminates ==
    \A l \in 1..MaxLoops :
        (l \in AliveLoops /\ ~discoveryRunning /\ last.op = "StopPeriodicDiscovery")
            ~> (l \notin AliveLoops)

\* The rest of C32: a StopPeriodicDiscovery while nothing runs closes no
\* channel and changes nothing, and a StartPeriodicDiscovery after a stop
\* succeeds and launches a fresh loop
C32_SecondStopNoopRestartWorks ==
    [][/\ (~discoveryRunning /\ last'.op = "StopPeriodicDiscovery"
              => /\ closedChans' = closedChans /\ stopDiscovery' = stopDiscovery
                 /\ last'.err = "ok" /\ ~discoveryRunning')
       /\ (discoveryEnabled /\ ~discoveryRunning /\ last'.op = "StartPeriodicDiscovery"
              /\ last' # last
              => /\ last'.err = "ok" /\ discoveryRunning'
                 /\ \E l \in 1..MaxLoops : loops[l].pc = "none" /\ loops'[l].pc = "top"
                 /\ stopDiscovery' \notin closedChans')]_vars

\* C35: manager/registry consistency: after any sequence of manager
\* operations a name is in the manager's loaded set if and only if the
\* registry holds an entry under that same name, the entry being the adapter
\* the manager recorded.
C35_LoadedIffRegistered ==
    \A n \in Names : n \in loaded <=> tools[n] = n

\* every call and every hook of the shutdown performed last returned nil:
\* the watcher's and the transport's Stop, every Cleanup() and Shutdown()
ShutdownHooksOk ==
    /\ \A i \in Idx("configWatcher.Stop") \cup Idx("transport.Stop") : app.trace[i].err = "ok"
    /\ \A i \in DOMAIN last.events :
          last.events[i].ev \in {"Cleanup", "Shutdown"} => last.events[i].res = "ok"

\* C37: App.Shutdown unloads exactly the plugins that are loaded; when every
\* hook succeeds it returns no error, even if some discovered plugins were
\* never loaded, and afterwards no plugin is loaded and the registry is empty.
C37_ShutdownUnloadsLoaded ==
    app.phase = "down" =>
        /\ {app.trace[i].name : i \in Idx("UnloadPlugin")} = app.wasLoaded
        /\ ShutdownHooksOk =>
              /\ app.err = "ok"
              /\ loaded = {}
              /\ \A k \in ToolNames : tools[k] = NoTool

\* What does hold: with every hook succeeding the manager and the registry end empty
C37_EndsEmpty ==
    app.phase = "down" /\ ShutdownHooksOk =>
        loaded = {} /\ \A k \in ToolNames : tools[k] = NoTool

RECURSIVE SumCalls(_, _)
SumCalls(f, S) ==
    IF S = {} THEN 0 ELSE LET k == CHOOSE x \in S : TRUE IN f[k] + SumCalls(f, S \ {k})

\* C38: after any sequence of RecordRequest calls errorCount <= requestCount,
\* the per-tool call counts sum to at most requestCount (to exactly
\* requestCount when no call carried the empty tool name), the latency window
\* holds at most its capacity of samples, and maxResponseTime is not less than
\* any sample in the window.
C38_CountersConsistent ==
    /\ metrics.errorCount <= metrics.requestCount
    /\ SumCalls(metrics.toolCallCount, Names) <= metrics.requestCount
    /\ (\A c \in Invokers : \A i \in DOMAIN inv[c].entries :
            inv[c].entries[i].toolName # EmptyName)
          => SumCalls(metrics.toolCallCount, Names) = metrics.requestCount
    /\ metrics.toolCallCount[EmptyName] = 0
    /\ Len(metrics.responseTimes) <= MaxWindow
    /\ Len(metrics.responseTimes) <= metrics.requestCount
    /\ \A i \in DOMAIN metrics.responseTimes :
          metrics.maxResponseTime >= metrics.responseTimes[i]

\* more calls than the window holds, one of them an error and one without a
\* tool name, and the largest sample has left the window
C38_Witness ==
    /\ metrics.requestCount > MaxWindow
    /\ Len(metrics.responseTimes) = MaxWindow
    /\ metrics.errorCount \in 1..(metrics.requestCount - 1)
    /\ SumCalls(metrics.toolCallCount, Names) < metrics.requestCount
    /\ SumCalls(metrics.toolCallCount, Names) > 0
    /\ \A i \in DOMAIN metrics.responseTimes :
          metrics.maxResponseTime > metrics.responseTimes[i]

\* as many calls as the window holds, every one with a tool name
C38_NamedWitness ==
    /\ metrics.requestCount = MaxWindow
    /\ SumCalls(metrics.toolCallCount, Names) = metrics.requestCount
    /\ metrics.errorCount = 1

\* C36: a serving loop left over from an earlier Start/Stop cycle never
\* changes the state of a later cycle: after a Stop() followed by a successful
\* Start(), with no call since, the context not cancelled and the new cycle's
\* own serving goroutine still alive, running and IsHealthy() are true.
C36_LeftoverLoopHarmless ==
    (/\ lastCall.op = "Start" /\ lastCall.err = "ok"
     /\ cycle > 1
     /\ cycle \notin stoppedCycles
     /\ mu = "free"
     /\ ~ctxCancelled
     /\ Alive(cycle))
        => running /\ IsHealthy

\* C33: LoadPlugin, UnloadPlugin and ReloadPlugin each run to completion under
\* pm.mu held exclusively, so that while a ReloadPlugin(n) call is under way no
\* LoadPlugin(n) or UnloadPlugin(n) call of another goroutine takes effect
C33_ReloadNotCrossed ==
    \A r \in ManagerCallers : mcall[r].op = "ReloadPlugin" => ~mcall[r].crossed

\* An UnloadPlugin(n) call has unregistered the adapter it unloads and has not
\* yet called its Shutdown()
ShutdownOwed(c, n) ==
    mcall[c].cur = "UnloadPlugin" /\ mcall[c].name = n /\ mcall[c].pc = "shutdown"

C39_NoUnsynchronizedAccess ==
    \A a, b \in ManagerCallers :
        ~(a # b /\ mcall[a].pc = "range" /\ Writing(b))

====
